---------------------------- MODULE Spec2Model ----------------------------
(***************************************************************************)
(* RegexFileFinder.                                                        *)
(*   Spec, CapSpec  the rename transaction engine (FileRenameService) over *)
(*                  a small filesystem, one action per public operation;   *)
(*                  calls do not overlap, so each action is the whole      *)
(*                  handler from its first statement to its return.        *)
(*   OverlapSpec    the same engine run from await to await, so that the   *)
(*                  calls of two messages of the view interleave.          *)
(*   PreviewSpec    previewRename applied to files, pattern, replacement.  *)
(*   ValidateSpec   validateRename applied to a preview and a disk.        *)
(*   RequestSpec    the rename request of SearchInputViewProvider:         *)
(*                  preview, validation, confirmation, execution.          *)
(*   SearchSpec     SearchTreeProvider and FileSearchService: a search     *)
(*                  runs from await to await, so searches, cancellations   *)
(*                  and clearResults interleave.                           *)
(*   LiveSearchSpec SearchSpec with the host resuming a search in flight.  *)
(*   ResultsSpec    SearchSpec with the rename preview and the rename      *)
(*                  request of the view reading getSearchState.            *)
(*   RegexSpec      RegexValidator.validate and createRegex applied to a   *)
(*                  pattern.                                               *)
(*   GlobSpec       the include and exclude globs built for findFiles.     *)
(*   TreeSpec       TreeBuilder.buildFileTree applied to files and options.*)
(***************************************************************************)
EXTENDS Integers, Sequences, FiniteSets, TLC

\* ------------------------------------------------------------------ bounds
\* Longest preview list handed to executeRename.
MaxLen == 2
\* History entries created in one behaviour of Spec.
MaxExec == 2
\* History entries created in one behaviour of CapSpec.
MaxCapExec == 12
\* Longest search pattern handed to previewRename.
MaxPatLen == 2
\* Longest replacement handed to previewRename.
MaxReplLen == 3
\* Longest new name validated on its own.
MaxNameLen == 4
\* Rename requests made in one behaviour of RequestSpec.
MaxRequests == 2
\* searchFiles calls made in one behaviour of SearchSpec.
MaxSearches == 2
\* Largest batchSize and maxResults option of searchFiles.
MaxBatchSize == 2
MaxMaxResults == 2
\* Longest enumerated regular expression (longer ones are sampled).
MaxRegexLen == 3
\* Largest maxDepth option of buildFileTree (0: not given).
MaxTreeDepth == 2
\* Engine calls in flight at once in one behaviour of OverlapSpec.
MaxOverlap == 2

\* --------------------------------------------------------- the filesystem
\* Absolute paths of the workspace: two in the root folder, one in a
\* subfolder.
Paths == {"/a", "/b", "/s/c"}
RootDir == "/"
SubDir == "/s"
Dirs == {RootDir, SubDir}
\* File contents; NoFile marks a free path.
Files == {1, 2, 3}
NoFile == 0

\* path.dirname
Dirname(p) == IF p = "/s/c" THEN SubDir ELSE RootDir

VARIABLES
    fs,            \* path -> the file stored there, or NoFile
    dirs,          \* the directories that exist
    readOnly,      \* the directories the host refuses to create
    undoHistory,   \* FileRenameService._undoHistory, oldest first
    redoHistory,   \* FileRenameService._redoHistory, oldest first
    nextId,        \* number of RenameHistory objects created so far
    last,          \* the last call: operation, moves attempted, result
    roundTrip,     \* progress of an execute / undo / redo round trip
    operations,    \* the engine calls awaiting a filesystem call, oldest first
    input,         \* the arguments of the pure function under study
    output,        \* what it returned, NotCalled before the call
    request,       \* the last rename request of SearchInputViewProvider
    searchState,   \* SearchTreeProvider._searchState
    searchResults, \* the tree of SearchTreeProvider._searchResults
    currentSearchId, \* FileSearchService._currentSearchId, 0 for null
    isSearching,   \* FileSearchService._isSearching
    searches,      \* the searchFiles calls that have not returned yet
    searchCount,   \* number of searchFiles calls made so far
    finished,      \* the searchFiles call that returned last
    config         \* the search pattern and the options of searchFiles

\* The state of the rename engine.
engineVars == <<fs, dirs, readOnly, undoHistory, redoHistory, nextId, last,
                roundTrip, operations>>
\* The state of the search.
searchVars == <<searchState, searchResults, currentSearchId, isSearching,
                searches, searchCount, finished, config>>
\* The state outside the engine.
otherVars == <<input, output, request, searchVars>>

vars == <<fs, dirs, readOnly, undoHistory, redoHistory, nextId, last, roundTrip,
          operations, input, output, request, searchState, searchResults,
          currentSearchId,
          isSearching, searches, searchCount, finished, config>>

\* FileRenameService._maxHistorySize
maxHistorySize == 10

\* -------------------------------------------------------------- sequences
RECURSIVE Reverse(_)
\* Array.prototype.reverse (the value it leaves in the array and returns)
Reverse(s) == IF s = <<>> THEN <<>> ELSE Append(Reverse(Tail(s)), Head(s))

\* The last element of an array, and the array without it (Array.pop).
Top(stack) == stack[Len(stack)]
Front(stack) == SubSeq(stack, 1, Len(stack) - 1)

\* ------------------------------------------------- filesystem primitives
\* (variant: the rename is issued with overwrite enabled)
CanRenameOverwrite(f, from, to) == f[from] # NoFile

\* vscode.workspace.fs.rename(from, to, {overwrite: false}) succeeds iff
\* the source exists and the target does not.
CanRename(f, from, to) == f[from] # NoFile /\ f[to] = NoFile

\* The filesystem after a successful rename.
DoRename(f, from, to) == [f EXCEPT ![to] = f[from], ![from] = NoFile]

RECURSIVE RunMovesStop(_, _, _)
\* (variant: the loop ends at the first move that fails)
RunMovesStop(f, moves, log) ==
    IF moves = <<>> THEN [fs |-> f, log |-> log]
    ELSE LET m == Head(moves)
             ok == CanRename(f, m.from, m.to)
             entry == [from |-> m.from, to |-> m.to, ok |-> ok]
         IN IF ok THEN RunMovesStop(DoRename(f, m.from, m.to), Tail(moves),
                                    Append(log, entry))
            ELSE [fs |-> f, log |-> Append(log, entry)]

RECURSIVE RunMoves(_, _, _)
\* The loop `for (...) { try { await fs.rename(..) ; successCount++ }
\* catch { errors.push(..) } }` shared by executeRename, undo and redo:
\* every move is attempted in list order, a failure is recorded and the
\* loop goes on.  Returns the filesystem and the log of attempts.
RunMoves(f, moves, log) ==
    IF moves = <<>> THEN [fs |-> f, log |-> log]
    ELSE LET m == Head(moves)
             ok == CanRename(f, m.from, m.to)
         IN RunMoves(IF ok THEN DoRename(f, m.from, m.to) ELSE f,
                     Tail(moves),
                     Append(log, [from |-> m.from, to |-> m.to, ok |-> ok]))

\* The attempts of a log that succeeded / failed, in order.
Succeeded(log) == SelectSeq(log, LAMBDA a : a.ok)
Failed(log) == SelectSeq(log, LAMBDA a : ~a.ok)

\* {from, to} of an attempt
Pair(a) == [from |-> a.from, to |-> a.to]

\* --------------------------------------------------------- preview entries
\* RenamePreview: needsDirectoryMove is file.fsPath !== newPath.
Preview(old, new) ==
    [oldPath |-> old, newPath |-> new, needsDirectoryMove |-> (old # new)]

AllPreviews == UNION {{Preview(o, n) : n \in Paths \ {o}} : o \in Paths}

\* Preview lists of at most n entries over distinct source files (the
\* files of a search result are distinct).
PreviewLists(n) ==
    UNION {{s \in [1..k -> AllPreviews] :
               \A i, j \in 1..k : i # j => s[i].oldPath # s[j].oldPath}
           : k \in 0..n}


\* ----------------------------------------------------- directory creation
RECURSIVE CollectDirs(_, _)
\* executeRename's dirsToCreate: path.dirname(newPath) of every entry with
\* needsDirectoryMove, as a Set iterated in insertion order.
CollectDirs(previews, acc) ==
    IF previews = <<>> THEN acc
    ELSE LET p == Head(previews)
             d == Dirname(p.newPath)
             seen == \E i \in 1..Len(acc) : acc[i] = d
         IN CollectDirs(Tail(previews),
                        IF p.needsDirectoryMove /\ ~seen
                        THEN Append(acc, d) ELSE acc)

\* (variant: a failure of createDirectory is swallowed)
EnsureDirectoryExistsQuiet(ds, d, denied) ==
    IF d \in ds \/ d \in denied THEN [dirs |-> ds, threw |-> FALSE]
    ELSE [dirs |-> ds \cup {d}, threw |-> FALSE]

\* ensureDirectoryExists: stat succeeds on an existing directory; otherwise
\* createDirectory is called, which throws for the directories in denied.
EnsureDirectoryExists(ds, d, denied) ==
    IF d \in ds THEN [dirs |-> ds, threw |-> FALSE]
    ELSE IF d \in denied THEN [dirs |-> ds, threw |-> TRUE]
    ELSE [dirs |-> ds \cup {d}, threw |-> FALSE]

RECURSIVE CreateDirs(_, _, _)
\* The loop over dirsToCreate: stops at the first directory whose creation
\* throws.
CreateDirs(ds, todo, denied) ==
    IF todo = <<>> THEN [dirs |-> ds, threw |-> FALSE]
    ELSE LET r == EnsureDirectoryExists(ds, Head(todo), denied)
         IN IF r.threw THEN r ELSE CreateDirs(r.dirs, Tail(todo), denied)

\* ------------------------------------------------------------- the history
\* A RenameHistory object.  id is the identity of the object (the same
\* object travels between the two stacks); executed is the order in which
\* executeRename pushed the pairs, kept beside the array that undo reverses.
History(mapping, id) ==
    [fileMapping |-> mapping, id |-> id, executed |-> mapping]

\* (variant: the oldest entry is never dropped)
AddToHistoryUncapped(undo, history) ==
    [undo |-> Append(undo, history), redo |-> <<>>]

\* (variant: the redo stack is not cleared)
AddToHistoryKeepRedo(undo, history) ==
    LET pushed == Append(undo, history)
    IN [undo |-> IF Len(pushed) > maxHistorySize THEN Tail(pushed) ELSE pushed,
        redo |-> redoHistory]

\* addToHistory: push, drop the oldest entry beyond the cap, clear redo.
AddToHistory(undo, history) ==
    LET pushed == Append(undo, history)
    IN [undo |-> IF Len(pushed) > maxHistorySize THEN Tail(pushed) ELSE pushed,
        redo |-> <<>>]

canUndo == Len(undoHistory) > 0
canRedo == Len(redoHistory) > 0

\* (variant: the entry is inserted at the bottom of the target stack)
MoveEntryUnshift(source, target, history) ==
    [source |-> Front(source), target |-> <<history>> \o target]

\* undo and redo take the entry off one stack (pop) and, after the moves,
\* push it on the other.
MoveEntry(source, target, history) ==
    [source |-> Front(source), target |-> Append(target, history)]

\* The array undo iterates: lastHistory.fileMapping.reverse(), which also
\* reverses lastHistory.fileMapping in place.
UndoOrder(history) == Reverse(history.fileMapping)

\* The array redo iterates: lastHistory.fileMapping.
RedoOrder(history) == history.fileMapping

\* undo renames to -> from, redo renames from -> to.
Backward(mapping) ==
    [i \in 1..Len(mapping) |-> [from |-> mapping[i].to, to |-> mapping[i].from]]

\* ------------------------------------------------------------ call records
NoTrip == [stage |-> 0, pre |-> <<>>, post |-> <<>>]

Result(success, total, errors) ==
    [successCount |-> success, failureCount |-> total - success,
     errors |-> errors]

\* What a call did: the operation, the error it signalled, the preview
\* list it was given, the moves it attempted in order, the RenameResult.
Call(op, error, previews, log, result) ==
    [op |-> op, error |-> error, previews |-> previews, moves |-> log,
     result |-> result]

\* The file of each error record of a move loop.
ErrorFiles(log) == [i \in 1..Len(Failed(log)) |-> Failed(log)[i].from]

\* The result of a call, and no call made yet.
NotCalled == [called |-> FALSE]
Returned(value) == [called |-> TRUE, value |-> value]

\* A rename request of the provider: its number, how it ended, the preview
\* it built, what validateRename returned for it, whether the user was
\* asked to confirm and the button the user chose.
RenameRequest(n, stage, previews, validation, asked, action) ==
    [n |-> n, stage |-> stage, previews |-> previews,
     validation |-> validation, asked |-> asked, action |-> action]

NoRequest == RenameRequest(0, "none", <<>>, NotCalled, FALSE, "none")

\* FileSearchService and SearchTreeProvider as constructed, no search made.
NoSearch ==
    /\ searchState = "idle"
    /\ searchResults = [rootNodes |-> <<>>, nodes |-> <<>>]
    /\ currentSearchId = 0
    /\ isSearching = FALSE
    /\ searches = {}
    /\ searchCount = 0
    /\ finished = [searchId |-> 0]
    /\ config = <<>>

\* A fresh engine over a workspace with files /a and /b, where either the
\* subfolder does not exist yet or it exists and holds a third file.
Init ==
    /\ \E third \in {NoFile, 3} :
          /\ fs = [p \in Paths |-> IF p = "/a" THEN 1 ELSE IF p = "/b" THEN 2
                                   ELSE third]
          /\ dirs = IF third = NoFile THEN {RootDir} ELSE Dirs
    /\ readOnly \in SUBSET (Dirs \ {RootDir})
    /\ undoHistory = <<>>
    /\ redoHistory = <<>>
    /\ nextId = 0
    /\ last = Call("none", "none", <<>>, <<>>, Result(0, 0, <<>>))
    /\ roundTrip = NoTrip
    /\ operations = <<>>
    /\ input = <<>>
    /\ output = NotCalled
    /\ request = NoRequest
    /\ NoSearch

\* The preview lists tried.
Inputs == PreviewLists(MaxLen)

\* -------------------------------------------------------------- operations
\* (variant: an entry is recorded even when nothing moved)
RecordHistoryAlways(undo, redo, fileMapping, id) ==
    AddToHistory(undo, History(fileMapping, id))

\* Lines 264-271 of executeRename: a history entry is recorded only when
\* at least one move succeeded.
RecordHistory(undo, redo, fileMapping, id) ==
    IF Len(fileMapping) > 0
    THEN AddToHistory(undo, History(fileMapping, id))
    ELSE [undo |-> undo, redo |-> redo]

\* (variant: the call returns an empty result instead of throwing)
ThrowNothing(op, error) ==
    /\ last' = Call(op, "none", <<>>, <<>>, Result(0, 0, <<>>))
    /\ roundTrip' = NoTrip
    /\ UNCHANGED <<fs, dirs, readOnly, undoHistory, redoHistory,
                   nextId, operations>>

\* throw new RenameError(ERROR_MESSAGES[error]) as the first statement of
\* undo or redo: nothing has been done.
Throw(op, error) ==
    /\ last' = Call(op, error, <<>>, <<>>, Result(0, 0, <<>>))
    /\ roundTrip' = NoTrip
    /\ UNCHANGED <<fs, dirs, readOnly, undoHistory, redoHistory,
                   nextId, operations>>

\* executeRename(previews)
ExecuteRename(previews) ==
    IF Len(previews) = 0
    THEN /\ last' = Call("execute", "none", previews, <<>>, Result(0, 0, <<>>))
         /\ roundTrip' = NoTrip
         /\ UNCHANGED <<fs, dirs, readOnly, undoHistory, redoHistory,
                        nextId, operations>>
    ELSE LET made == CreateDirs(dirs, CollectDirs(previews, <<>>), readOnly)
         IN IF made.threw
            THEN /\ dirs' = made.dirs
                 /\ last' = Call("execute", "DIRECTORY_CREATE_FAILED", previews,
                                 <<>>,
                                 Result(0, Len(previews), <<previews[1].oldPath>>))
                 /\ roundTrip' = NoTrip
                 /\ UNCHANGED <<fs, readOnly, undoHistory, redoHistory,
                                nextId, operations>>
            ELSE LET moves == [i \in 1..Len(previews) |->
                                  [from |-> previews[i].oldPath,
                                   to |-> previews[i].newPath]]
                     run == RunMoves(fs, moves, <<>>)
                     done == Succeeded(run.log)
                     fileMapping == [i \in 1..Len(done) |-> Pair(done[i])]
                     stacks == RecordHistory(undoHistory, redoHistory,
                                             fileMapping, nextId + 1)
                     result == Result(Len(done), Len(previews),
                                      ErrorFiles(run.log))
                 IN /\ dirs' = made.dirs
                    /\ fs' = run.fs
                    /\ UNCHANGED <<readOnly, operations>>
                    /\ undoHistory' = stacks.undo
                    /\ redoHistory' = stacks.redo
                    /\ nextId' = IF stacks.undo # undoHistory THEN nextId + 1
                                                               ELSE nextId
                    /\ last' = Call("execute", "none", previews, run.log, result)
                    /\ roundTrip' = IF result.failureCount = 0
                                    THEN [stage |-> 1, pre |-> fs, post |-> run.fs]
                                    ELSE NoTrip

\* (variant: undo removes the directories it has emptied)
UndoRemovesEmptied ==
    IF ~canUndo
    THEN Throw("undo", "NO_UNDO_HISTORY")
    ELSE LET lastHistory == Top(undoHistory)
             order == UndoOrder(lastHistory)
             run == RunMoves(fs, Backward(order), <<>>)
             succeeded == Len(Succeeded(run.log))
             stacks == MoveEntry(undoHistory, redoHistory,
                                 [lastHistory EXCEPT !.fileMapping = order])
         IN /\ fs' = run.fs
            /\ undoHistory' = stacks.source
            /\ redoHistory' = stacks.target
            /\ last' = Call("undo", "none", <<>>, run.log,
                            Result(succeeded, Len(order), ErrorFiles(run.log)))
            /\ roundTrip' = IF roundTrip.stage = 1
                            THEN [roundTrip EXCEPT !.stage = 2] ELSE NoTrip
            /\ dirs' = {d \in dirs :
                          \/ d = RootDir
                          \/ \E p \in Paths :
                                run.fs[p] # NoFile /\ Dirname(p) = d}
            /\ UNCHANGED <<readOnly, nextId, operations>>

\* undo()
Undo ==
    IF ~canUndo
    THEN Throw("undo", "NO_UNDO_HISTORY")
    ELSE LET lastHistory == Top(undoHistory)
             order == UndoOrder(lastHistory)
             run == RunMoves(fs, Backward(order), <<>>)
             succeeded == Len(Succeeded(run.log))
             stacks == MoveEntry(undoHistory, redoHistory,
                                 [lastHistory EXCEPT !.fileMapping = order])
         IN /\ fs' = run.fs
            /\ undoHistory' = stacks.source
            /\ redoHistory' = stacks.target
            /\ last' = Call("undo", "none", <<>>, run.log,
                            Result(succeeded, Len(order), ErrorFiles(run.log)))
            /\ roundTrip' = IF roundTrip.stage = 1
                            THEN [roundTrip EXCEPT !.stage = 2] ELSE NoTrip
            /\ UNCHANGED <<dirs, readOnly, nextId, operations>>

\* redo()
Redo ==
    IF ~canRedo
    THEN Throw("redo", "NO_REDO_HISTORY")
    ELSE LET lastHistory == Top(redoHistory)
             order == RedoOrder(lastHistory)
             run == RunMoves(fs, order, <<>>)
             succeeded == Len(Succeeded(run.log))
             stacks == MoveEntry(redoHistory, undoHistory, lastHistory)
         IN /\ fs' = run.fs
            /\ redoHistory' = stacks.source
            /\ undoHistory' = stacks.target
            /\ last' = Call("redo", "none", <<>>, run.log,
                            Result(succeeded, Len(order), ErrorFiles(run.log)))
            /\ roundTrip' = NoTrip
            /\ UNCHANGED <<dirs, readOnly, nextId, operations>>

\* Something other than the engine moves a file to a free path of an
\* existing directory.
ExternalMove(from, to) ==
    /\ CanRename(fs, from, to)
    /\ Dirname(to) \in dirs
    /\ fs' = DoRename(fs, from, to)
    /\ last' = Call("external", "none", <<>>, <<>>, Result(0, 0, <<>>))
    /\ roundTrip' = NoTrip
    /\ UNCHANGED <<dirs, readOnly, undoHistory, redoHistory,
                   nextId, operations>>

\* The files of a preview exist: the provider builds the preview from the
\* result of the search it runs again after every rename.
SourcesExist(previews) ==
    \A i \in 1..Len(previews) : fs[previews[i].oldPath] # NoFile

Next ==
    \/ \E previews \in Inputs :
          /\ nextId < MaxExec /\ SourcesExist(previews)
          /\ ExecuteRename(previews)
          /\ UNCHANGED otherVars
    \/ Undo /\ UNCHANGED otherVars
    \/ Redo /\ UNCHANGED otherVars
    \/ \E from \in Paths, to \in Paths :
          ExternalMove(from, to) /\ UNCHANGED otherVars

Spec == Init /\ [][Next]_vars

\* ------------------------------------------- long histories (the cap of 10)
\* One file renamed back and forth between /a and /b, so that histories
\* longer than maxHistorySize are reached.
CapInit ==
    /\ fs = [p \in Paths |-> IF p = "/a" THEN 1 ELSE NoFile]
    /\ dirs = {RootDir}
    /\ readOnly = {}
    /\ undoHistory = <<>>
    /\ redoHistory = <<>>
    /\ nextId = 0
    /\ last = Call("none", "none", <<>>, <<>>, Result(0, 0, <<>>))
    /\ roundTrip = NoTrip
    /\ operations = <<>>
    /\ input = <<>>
    /\ output = NotCalled
    /\ request = NoRequest
    /\ NoSearch

CapInputs == {<<Preview("/a", "/b")>>, <<Preview("/b", "/a")>>}

CapNext ==
    \/ \E previews \in CapInputs :
          /\ nextId < MaxCapExec /\ SourcesExist(previews)
          /\ ExecuteRename(previews)
          /\ UNCHANGED otherVars
    \/ Undo /\ UNCHANGED otherVars
    \/ Redo /\ UNCHANGED otherVars

CapSpec == CapInit /\ [][CapNext]_vars

\* ------------------------------------------------------- overlapping calls
\* The message handler of SearchInputViewProvider is an async function the
\* host calls once per message and does not wait for, and FileRenameService
\* holds no lock: a call runs from one await to the next, and the calls
\* delivered meanwhile run between them.  Each action below is the code of
\* one call from an await (or from its first statement) to its next await
\* or to its return.

\* A call of the engine at an await: pc is the filesystem call it waits
\* for (stat and createDirectory of todo[i], rename of moves[i]), log the
\* renames it has attempted, lastHistory the entry undo or redo popped.
Operation(op, pc, previews, todo, moves, lastHistory) ==
    [op |-> op, pc |-> pc, previews |-> previews, todo |-> todo,
     moves |-> moves, i |-> 1, log |-> <<>>, lastHistory |-> lastHistory]

NoHistory == History(<<>>, 0)

\* The array of the calls in flight with call k replaced, and without it.
Replaced(k, operation) == [operations EXCEPT ![k] = operation]
Removed(k) ==
    SubSeq(operations, 1, k - 1) \o SubSeq(operations, k + 1, Len(operations))

InFlight(op) == Len(SelectSeq(operations, LAMBDA o : o.op = op))

\* executeRename after a directory is there: the next directory, or the
\* first rename.
NextDirectory(operation) ==
    IF operation.i < Len(operation.todo)
    THEN [operation EXCEPT !.pc = "stat", !.i = operation.i + 1]
    ELSE [operation EXCEPT !.pc = "rename", !.i = 1]

\* executeRename(previews) up to its first await.
BeginExecuteRename(previews) ==
    IF Len(previews) = 0
    THEN /\ last' = Call("execute", "none", previews, <<>>, Result(0, 0, <<>>))
         /\ UNCHANGED <<fs, dirs, readOnly, undoHistory, redoHistory, nextId,
                        roundTrip, operations>>
    ELSE LET todo == CollectDirs(previews, <<>>)
             moves == [i \in 1..Len(previews) |->
                          [from |-> previews[i].oldPath,
                           to |-> previews[i].newPath]]
         IN /\ operations' =
                   Append(operations,
                          Operation("execute",
                                    IF todo = <<>> THEN "rename" ELSE "stat",
                                    previews, todo, moves, NoHistory))
            /\ UNCHANGED <<fs, dirs, readOnly, undoHistory, redoHistory,
                           nextId, last, roundTrip>>

\* ensureDirectoryExists: stat resolves for a directory that exists and
\* rejects otherwise, and then createDirectory is called.
StatSettles(k) ==
    LET operation == operations[k]
    IN /\ operation.pc = "stat"
       /\ operations' =
             Replaced(k, IF operation.todo[operation.i] \in dirs
                         THEN NextDirectory(operation)
                         ELSE [operation EXCEPT !.pc = "createDirectory"])
       /\ UNCHANGED <<fs, dirs, readOnly, undoHistory, redoHistory, nextId,
                      last, roundTrip>>

\* createDirectory resolves, or it rejects and executeRename returns the
\* failure of every preview.
CreateDirectorySettles(k) ==
    LET operation == operations[k]
        made == EnsureDirectoryExists(dirs, operation.todo[operation.i],
                                      readOnly)
    IN /\ operation.pc = "createDirectory"
       /\ dirs' = made.dirs
       /\ IF made.threw
          THEN /\ operations' = Removed(k)
               /\ last' = Call("execute", "DIRECTORY_CREATE_FAILED",
                               operation.previews, <<>>,
                               Result(0, Len(operation.previews),
                                      <<operation.previews[1].oldPath>>))
          ELSE /\ operations' = Replaced(k, NextDirectory(operation))
               /\ UNCHANGED last
       /\ UNCHANGED <<fs, readOnly, undoHistory, redoHistory, nextId,
                      roundTrip>>

\* The statements after the loop of renames, to the return: executeRename
\* records the history entry, undo pushes the entry it popped on the redo
\* stack, redo on the undo stack.
Finish(operation, log) ==
    LET result == Result(Len(Succeeded(log)), Len(operation.moves),
                         ErrorFiles(log))
    IN /\ last' = Call(operation.op, "none", operation.previews, log, result)
       /\ CASE operation.op = "execute" ->
                 LET done == Succeeded(log)
                     fileMapping == [i \in 1..Len(done) |-> Pair(done[i])]
                     stacks == RecordHistory(undoHistory, redoHistory,
                                             fileMapping, nextId + 1)
                 IN /\ undoHistory' = stacks.undo
                    /\ redoHistory' = stacks.redo
                    /\ nextId' = IF Len(fileMapping) > 0 THEN nextId + 1
                                                          ELSE nextId
            [] operation.op = "undo" ->
                 /\ redoHistory' = Append(redoHistory, operation.lastHistory)
                 /\ UNCHANGED <<undoHistory, nextId>>
            [] operation.op = "redo" ->
                 /\ undoHistory' = Append(undoHistory, operation.lastHistory)
                 /\ UNCHANGED <<redoHistory, nextId>>

\* vscode.workspace.fs.rename resolves or rejects, and the loop goes on to
\* the next rename or ends.
RenameSettles(k) ==
    LET operation == operations[k]
        m == operation.moves[operation.i]
        ok == CanRename(fs, m.from, m.to)
        log == Append(operation.log, [from |-> m.from, to |-> m.to, ok |-> ok])
    IN /\ operation.pc = "rename"
       /\ fs' = IF ok THEN DoRename(fs, m.from, m.to) ELSE fs
       /\ IF operation.i < Len(operation.moves)
          THEN /\ operations' =
                     Replaced(k, [operation EXCEPT !.i = operation.i + 1,
                                                   !.log = log])
               /\ UNCHANGED <<undoHistory, redoHistory, nextId, last>>
          ELSE /\ operations' = Removed(k)
               /\ Finish(operation, log)
       /\ UNCHANGED <<dirs, readOnly, roundTrip>>

\* undo() up to its first await: the entry is popped and its array
\* reversed.
BeginUndo ==
    IF ~canUndo
    THEN Throw("undo", "NO_UNDO_HISTORY")
    ELSE LET lastHistory == Top(undoHistory)
             order == UndoOrder(lastHistory)
         IN /\ undoHistory' = Front(undoHistory)
            /\ operations' =
                   Append(operations,
                          Operation("undo", "rename", <<>>, <<>>,
                                    Backward(order),
                                    [lastHistory EXCEPT !.fileMapping = order]))
            /\ UNCHANGED <<fs, dirs, readOnly, redoHistory, nextId, last,
                           roundTrip>>

\* redo() up to its first await.
BeginRedo ==
    IF ~canRedo
    THEN Throw("redo", "NO_REDO_HISTORY")
    ELSE LET lastHistory == Top(redoHistory)
         IN /\ redoHistory' = Front(redoHistory)
            /\ operations' =
                   Append(operations,
                          Operation("redo", "rename", <<>>, <<>>,
                                    RedoOrder(lastHistory), lastHistory))
            /\ UNCHANGED <<fs, dirs, readOnly, undoHistory, nextId, last,
                           roundTrip>>

\* The preview lists of the overlapping requests.
OverlapInputs ==
    {previews \in PreviewLists(MaxLen) :
        \A i \in 1..Len(previews) : previews[i].oldPath # "/s/c"}

OverlapNext ==
    \/ \E previews \in OverlapInputs :
          /\ Len(operations) < MaxOverlap
          /\ nextId + InFlight("execute") < MaxExec
          /\ SourcesExist(previews)
          /\ BeginExecuteRename(previews)
          /\ UNCHANGED otherVars
    \/ Len(operations) < MaxOverlap /\ BeginUndo /\ UNCHANGED otherVars
    \/ Len(operations) < MaxOverlap /\ BeginRedo /\ UNCHANGED otherVars
    \/ \E k \in 1..Len(operations) : StatSettles(k) /\ UNCHANGED otherVars
    \/ \E k \in 1..Len(operations) :
          CreateDirectorySettles(k) /\ UNCHANGED otherVars
    \/ \E k \in 1..Len(operations) : RenameSettles(k) /\ UNCHANGED otherVars

OverlapSpec == Init /\ [][OverlapNext]_vars

\* ------------------------------------------------ names and paths as text
\* A string is the sequence of its characters, a path the sequence of its
\* segments below the filesystem root.
Ideographic == "U+3000"     \* the ideographic space, one character
Control == "\t"             \* a control character (\x00-\x1f)

\* The characters String.prototype.trim strips.
Whitespace == {" ", Control, Ideographic}

\* The string from its first character that is not whitespace on.
TrimStart(s) ==
    LET kept == {i \in 1..Len(s) : s[i] \notin Whitespace}
    IN IF kept = {} THEN <<>>
       ELSE SubSeq(s, CHOOSE i \in kept : \A k \in kept : i <= k, Len(s))

\* The string up to its last character that is not whitespace.
TrimEnd(s) ==
    LET kept == {i \in 1..Len(s) : s[i] \notin Whitespace}
    IN IF kept = {} THEN <<>>
       ELSE SubSeq(s, 1, CHOOSE i \in kept : \A k \in kept : k <= i)

\* String.prototype.trim
Trim(s) == TrimEnd(TrimStart(s))

\* s.endsWith(c)
EndsWith(s, c) == s # <<>> /\ s[Len(s)] = c

\* The least i at which p occurs in s from position `from` on, 0 if none.
RECURSIVE IndexOf(_, _, _)
IndexOf(s, p, from) ==
    IF from + Len(p) - 1 > Len(s) THEN 0
    ELSE IF SubSeq(s, from, from + Len(p) - 1) = p THEN from
    ELSE IndexOf(s, p, from + 1)

\* The pattern, a regular expression of literal characters and of "."
\* (any character), matches s at position i.
MatchesAt(s, p, i) ==
    /\ i + Len(p) - 1 <= Len(s)
    /\ \A k \in 1..Len(p) : p[k] = "." \/ p[k] = s[i + k - 1]

\* RegExp.prototype.exec: the least position from `from` on at which the
\* pattern matches, 0 if there is none.
RECURSIVE Exec(_, _, _)
Exec(s, p, from) ==
    IF from + Len(p) - 1 > Len(s) THEN 0
    ELSE IF MatchesAt(s, p, from) THEN from
    ELSE Exec(s, p, from + 1)

\* regex.test(name): the pattern matches somewhere in the name.
Occurs(pattern, name) == \E i \in 1..Len(name) : MatchesAt(name, pattern, i)

\* fileName.replace(new RegExp(pattern), replacement) for a replacement
\* without "$": the leftmost match is replaced, a name without match is
\* returned as it is.
Replace(s, p, r) ==
    LET i == Exec(s, p, 1)
    IN IF i = 0 THEN s
       ELSE SubSeq(s, 1, i - 1) \o r \o SubSeq(s, i + Len(p), Len(s))

RECURSIVE Split(_, _)
\* String.prototype.split(c): the segments between the occurrences of c.
Split(s, c) ==
    LET i == IndexOf(s, <<c>>, 1)
    IN IF i = 0 THEN <<s>>
       ELSE <<SubSeq(s, 1, i - 1)>> \o Split(SubSeq(s, i + 1, Len(s)), c)

RECURSIVE Normalize(_, _)
\* path.normalize of an absolute path: empty and "." segments are dropped,
\* ".." removes the segment before it.
Normalize(segments, acc) ==
    IF segments = <<>> THEN acc
    ELSE LET h == Head(segments)
         IN Normalize(Tail(segments),
                      IF h = <<>> \/ h = <<".">> THEN acc
                      ELSE IF h = <<".", ".">>
                           THEN (IF acc = <<>> THEN acc ELSE Front(acc))
                           ELSE Append(acc, h))

\* path.basename and path.dirname of an absolute path
PathBasename(p) == p[Len(p)]
PathDirname(p) == Front(p)

\* generateNewFilePath(directory, newFileName): both branches hand the
\* directory and the "/"-separated parts of the name to path.join.
GenerateNewFilePath(directory, newFileName) ==
    Normalize(directory \o Split(newFileName, "/"), <<>>)

\* The RenamePreview previewRename pushes for a file and its new name.
RenamePreview(file, newFileName) ==
    LET newPath == GenerateNewFilePath(PathDirname(file), newFileName)
    IN [oldPath |-> file, newPath |-> newPath,
        oldFileName |-> PathBasename(file), newFileName |-> newFileName,
        needsDirectoryMove |-> (file # newPath)]

RECURSIVE PreviewRenameAll(_, _, _)
\* (variant: the unchanged names are not skipped)
PreviewRenameAll(files, searchPattern, replacement) ==
    IF searchPattern = <<>> \/ Trim(searchPattern) = <<>> \/ files = <<>>
    THEN <<>>
    ELSE <<RenamePreview(Head(files),
                         Replace(PathBasename(Head(files)), searchPattern,
                                 replacement))>>
         \o PreviewRenameAll(Tail(files), searchPattern, replacement)

RECURSIVE PreviewRename(_, _, _)
\* previewRename(files, searchPattern, replacement)
PreviewRename(files, searchPattern, replacement) ==
    IF searchPattern = <<>> \/ Trim(searchPattern) = <<>> \/ files = <<>>
    THEN <<>>
    ELSE LET file == Head(files)
             fileName == PathBasename(file)
             newFileName == Replace(fileName, searchPattern, replacement)
             rest == PreviewRename(Tail(files), searchPattern, replacement)
         IN IF newFileName = fileName THEN rest
            ELSE <<RenamePreview(file, newFileName)>> \o rest

\* The strings of at most n characters over an alphabet.
Strings(chars, n) == UNION {[1..k -> chars] : k \in 0..n}

\* The workspace folder and the files found by the search: two in the
\* workspace folder, one in a subfolder.
Workspace == <<<<"w">>>>
WorkspaceFiles ==
    {Workspace \o <<<<"a">>>>, Workspace \o <<<<"a", "b">>>>,
     Workspace \o <<<<"s">>, <<"b", "a">>>>}

\* The lists of at most n distinct files.
FileLists(n) ==
    {l \in Strings(WorkspaceFiles, n) :
        \A i, j \in 1..Len(l) : i < j => l[i] # l[j]}

\* The characters of the patterns and of the replacements tried.
PatternChars == {"a", ".", " "}
ReplacementChars == {"b", "/", "."}

\* ---------------------------------------------------- previewRename alone
\* The engine is not used.
EngineIdle ==
    /\ fs = [p \in Paths |-> NoFile]
    /\ dirs = {RootDir}
    /\ readOnly = {}
    /\ undoHistory = <<>>
    /\ redoHistory = <<>>
    /\ nextId = 0
    /\ last = Call("none", "none", <<>>, <<>>, Result(0, 0, <<>>))
    /\ roundTrip = NoTrip
    /\ operations = <<>>

PreviewInit ==
    /\ input \in [files : FileLists(MaxLen),
                  searchPattern : Strings(PatternChars, MaxPatLen),
                  replacement : Strings(ReplacementChars, MaxReplLen)]
    /\ output = NotCalled
    /\ request = NoRequest
    /\ EngineIdle
    /\ NoSearch

PreviewCall ==
    /\ output = NotCalled
    /\ output' = Returned(PreviewRename(input.files, input.searchPattern,
                                        input.replacement))
    /\ UNCHANGED <<input, request, engineVars, searchVars>>

PreviewNext == PreviewCall

PreviewSpec == PreviewInit /\ [][PreviewNext]_vars

\* ------------------------------------------------------- validateRename
\* The class [<>:"|?*\x00-\x1f]
InvalidChars == {"<", ">", ":", "\"", "|", "?", "*", Control}

\* toUpperCase, for the letters of the names tried (the flag i of the
\* reserved-name pattern).
ToUpper(c) ==
    CASE c = "c" -> "C" [] c = "o" -> "O" [] c = "n" -> "N" [] OTHER -> c

Digits19 == {"1", "2", "3", "4", "5", "6", "7", "8", "9"}

\* The alternatives CON|PRN|AUX|NUL|COM[1-9]|LPT[1-9]
ReservedNames ==
    {<<"C", "O", "N">>, <<"P", "R", "N">>, <<"A", "U", "X">>,
     <<"N", "U", "L">>}
    \cup {<<"C", "O", "M", d>> : d \in Digits19}
    \cup {<<"L", "P", "T", d>> : d \in Digits19}

\* /^(CON|PRN|AUX|NUL|COM[1-9]|LPT[1-9])(\.|$)/i.test(fileName)
IsReservedName(fileName) ==
    \E r \in ReservedNames :
        /\ Len(fileName) >= Len(r)
        /\ [i \in 1..Len(r) |-> ToUpper(fileName[i])] = r
        /\ (Len(fileName) = Len(r) \/ fileName[Len(r) + 1] = ".")

\* isValidFileName(fileName)
IsValidFileName(fileName) ==
    /\ fileName # <<>> /\ Trim(fileName) # <<>>
    /\ \A i \in 1..Len(fileName) : fileName[i] \notin InvalidChars
    /\ ~IsReservedName(fileName)
    /\ ~EndsWith(fileName, ".") /\ ~EndsWith(fileName, " ")

\* vscode.workspace.fs.stat(uri) returns for a path on the disk the host
\* lets it read, and throws for every other path.
StatReturns(path, disk, unreadable) == path \in disk /\ path \notin unreadable

RECURSIVE DuplicateFiles(_, _)
\* The first loop of validateRename over the Set newPathsSet: an entry
\* whose newPath the set already holds is pushed to duplicateFiles, every
\* other entry adds its newPath to the set.
DuplicateFiles(previews, newPathsSet) ==
    IF previews = <<>> THEN <<>>
    ELSE LET preview == Head(previews)
         IN IF preview.newPath \in newPathsSet
            THEN <<preview>> \o DuplicateFiles(Tail(previews), newPathsSet)
            ELSE DuplicateFiles(Tail(previews),
                                newPathsSet \cup {preview.newPath})

RECURSIVE DirectoriesToCreate(_, _, _, _)
\* The last loop of validateRename: the directories of the entries with
\* needsDirectoryMove for which stat throws, each once.
DirectoriesToCreate(previews, disk, unreadable, acc) ==
    IF previews = <<>> THEN acc
    ELSE LET preview == Head(previews)
             newDir == PathDirname(preview.newPath)
             missing == /\ preview.needsDirectoryMove
                        /\ ~StatReturns(newDir, disk, unreadable)
                        /\ \A i \in 1..Len(acc) : acc[i] # newDir
         IN DirectoriesToCreate(Tail(previews), disk, unreadable,
                                IF missing THEN Append(acc, newDir) ELSE acc)

\* `x.length > 0 ? x : undefined`
Undefined == [defined |-> FALSE, value |-> <<>>]
OrUndefined(x) == IF Len(x) > 0 THEN [defined |-> TRUE, value |-> x]
                  ELSE Undefined

\* A message with the count it carries.
Message(kind, count) == [kind |-> kind, count |-> count]

\* (variant: duplicate targets make the result invalid)
ValidateRenameStrict(previews, disk, unreadable) ==
    LET duplicateFiles == DuplicateFiles(previews, {})
    IN [isValid |-> duplicateFiles = <<>>
                    /\ \A i \in 1..Len(previews) :
                          IsValidFileName(previews[i].newFileName),
        error |-> Message("invalid", 0),
        warnings |-> Undefined,
        duplicateFiles |-> OrUndefined(duplicateFiles),
        directoriesToCreate |-> Undefined]

\* validateRename(previews)
ValidateRename(previews, disk, unreadable) ==
    LET duplicateFiles == DuplicateFiles(previews, {})
        duplicateWarning ==
            IF Len(duplicateFiles) > 0
            THEN <<Message("duplicate", Len(duplicateFiles))>> ELSE <<>>
        invalidFiles ==
            SelectSeq(previews, LAMBDA p : ~IsValidFileName(p.newFileName))
        conflictingFiles ==
            SelectSeq(previews,
                      LAMBDA p : StatReturns(p.newPath, disk, unreadable))
        warnings ==
            duplicateWarning \o
            (IF Len(conflictingFiles) > 0
             THEN <<Message("exists", Len(conflictingFiles))>> ELSE <<>>)
        directoriesToCreate ==
            DirectoriesToCreate(previews, disk, unreadable, <<>>)
    IN IF Len(invalidFiles) > 0
       THEN [isValid |-> FALSE,
             error |-> Message("invalid", Len(invalidFiles)),
             warnings |-> [defined |-> TRUE, value |-> duplicateWarning],
             duplicateFiles |-> [defined |-> TRUE, value |-> duplicateFiles],
             directoriesToCreate |-> [defined |-> TRUE, value |-> <<>>]]
       ELSE [isValid |-> TRUE,
             error |-> Message("none", 0),
             warnings |-> OrUndefined(warnings),
             duplicateFiles |-> OrUndefined(duplicateFiles),
             directoriesToCreate |-> OrUndefined(directoriesToCreate)]

\* The characters of the new names validated one by one, and the new names
\* validated together.
NameChars == {"a", " ", ".", "*", Control, Ideographic, "C", "O", "N", "c"}
NameSamples ==
    {<<"x">>, <<"y">>, <<"b">>, <<"s", "/", "x">>, <<"x", ".">>}

\* The files renamed: the i-th entry of a preview renames the i-th of them.
OldNames == <<<<"a">>, <<"b">>, <<"c">>, <<"d">>>>
OldFile(i) == Workspace \o <<OldNames[i]>>

\* The preview that gives the files, in order, the new names of a list;
\* previewRename never returns an entry that keeps the name.
PreviewsOf(names) == [i \in 1..Len(names) |-> RenamePreview(OldFile(i), names[i])]
Renames(names) == \A i \in 1..Len(names) : names[i] # OldNames[i]

\* What exists on the disk: the workspace folder and the files renamed,
\* and possibly the file x and the folder s.
BaseDisk == {Workspace} \cup {OldFile(i) : i \in 1..Len(OldNames)}
ExtraPaths == {Workspace \o <<<<"x">>>>, Workspace \o <<<<"s">>>>}

ValidateInit ==
    /\ \/ \E name \in Strings(NameChars, MaxNameLen) :
             /\ Renames(<<name>>)
             /\ input = [previews |-> PreviewsOf(<<name>>),
                         disk |-> BaseDisk, unreadable |-> {}]
       \/ \E names \in Strings(NameSamples, MaxLen) :
          \E extra \in SUBSET ExtraPaths :
          \E unreadable \in SUBSET {Workspace \o <<<<"x">>>>} :
             /\ Renames(names)
             /\ input = [previews |-> PreviewsOf(names),
                         disk |-> BaseDisk \cup extra,
                         unreadable |-> unreadable]
    /\ output = NotCalled
    /\ request = NoRequest
    /\ EngineIdle
    /\ NoSearch

ValidateCall ==
    /\ output = NotCalled
    /\ output' = Returned(ValidateRename(input.previews, input.disk,
                                         input.unreadable))
    /\ UNCHANGED <<input, request, engineVars, searchVars>>

ValidateNext == ValidateCall

ValidateSpec == ValidateInit /\ [][ValidateNext]_vars

\* --------------------------------- the rename request of the provider
\* The engine's paths as text, the workspace folder being the root.
TextPath(p) ==
    CASE p = "/a" -> <<<<"a">>>>
      [] p = "/b" -> <<<<"b">>>>
      [] p = "/s/c" -> <<<<"s">>, <<"c">>>>
TextDir(d) == IF d = SubDir THEN <<<<"s">>>> ELSE <<>>
EnginePath(text) == CHOOSE p \in Paths : TextPath(p) = text

\* What stat finds: the files and the directories that exist.
Disk(f, ds) ==
    {TextPath(p) : p \in {q \in Paths : f[q] # NoFile}}
    \cup {TextDir(d) : d \in ds}

\* getSearchState().results.files: the files of the workspace folder the
\* last search found, the search being run again after every rename.
ResultFiles(f) ==
    LET found == SelectSeq(<<"/a", "/b">>, LAMBDA p : f[p] # NoFile)
    IN [i \in 1..Len(found) |-> TextPath(found[i])]

\* The preview handed to the engine.
EnginePreviews(previews) ==
    [i \in 1..Len(previews) |->
        Preview(EnginePath(previews[i].oldPath),
                EnginePath(previews[i].newPath))]

\* The buttons of the modal warning: the one offered, and closing it.
Continue == "continue"
Dismiss == "dismiss"

\* (variant: the request goes on whatever the user answers)
OutcomeUnasked(validation, action) ==
    IF ~validation.isValid THEN "invalid" ELSE "executed"

\* What executeRename of the provider does with the validation: it stops
\* on an invalid result, and on warnings unless the user chose to continue.
Outcome(validation, action) ==
    IF ~validation.isValid THEN "invalid"
    ELSE IF validation.warnings.defined /\ Len(validation.warnings.value) > 0
            /\ action # Continue
         THEN "declined"
         ELSE "executed"

\* The patterns and replacements configured when a rename is requested.
RequestPatterns == {<<>>, <<"a">>, <<".">>}
RequestReplacements ==
    {<<>>, <<"a">>, <<"b">>, <<"s", "/", "c">>, <<"b", ".">>}

\* SearchInputViewProvider.executeRename()
ProviderExecuteRename(searchPattern, replacement, action) ==
    LET n == request.n + 1
        files == ResultFiles(fs)
        previews == PreviewRename(files, searchPattern, replacement)
        validation == ValidateRename(previews, Disk(fs, dirs), {})
        asked == validation.isValid /\ validation.warnings.defined
        chosen == IF asked THEN action ELSE "none"
        outcome == Outcome(validation, action)
        Return(stage) ==
            /\ request' = RenameRequest(n, stage, <<>>, NotCalled, FALSE, "none")
            /\ UNCHANGED <<engineVars, input, output, searchVars>>
    IN IF searchPattern = <<>> \/ replacement = <<>>
       THEN Return("noReplacement")
       ELSE IF files = <<>> THEN Return("noFiles")
       ELSE IF previews = <<>> THEN Return("noPreviews")
       ELSE /\ request' = RenameRequest(n, outcome, previews,
                                        Returned(validation), asked, chosen)
            /\ UNCHANGED <<input, output, searchVars>>
            /\ IF outcome = "executed"
               THEN ExecuteRename(EnginePreviews(previews))
               ELSE UNCHANGED engineVars

RequestNext ==
    \/ \E searchPattern \in RequestPatterns :
       \E replacement \in RequestReplacements :
       \E action \in {Continue, Dismiss} :
          /\ request.n < MaxRequests
          /\ ProviderExecuteRename(searchPattern, replacement, action)
    \/ Undo /\ UNCHANGED otherVars
    \/ Redo /\ UNCHANGED otherVars

RequestSpec == Init /\ [][RequestNext]_vars

\* ------------------------------------------------------- RegexValidator
MAX_PATTERN_LENGTH == 1000

\* String.prototype.repeat
Repeat(s, n) == [k \in 1..(n * Len(s)) |-> s[((k - 1) % Len(s)) + 1]]

\* s.includes(p)
Includes(s, p) ==
    \E i \in 1..(Len(s) - Len(p) + 1) : SubSeq(s, i, i + Len(p) - 1) = p

\* The number of positions of s that a predicate selects.
Count(s, Selected(_)) == Cardinality({i \in 1..Len(s) : Selected(i)})

\* Before the first character and after each one, the "(" read so far less
\* the ")" read so far.
Balance(pattern) ==
    <<0>> \o SubSeq([i \in 1..Len(pattern) |->
                        Cardinality({k \in 1..i : pattern[k] = "("})
                        - Cardinality({k \in 1..i : pattern[k] = ")"})],
                    1, Len(pattern))

\* `new RegExp(pattern)` does not throw, for a pattern of groups, the
\* quantifier "*", "." and literal characters: every ")" closes a group,
\* every group is closed, and "*" follows something it can repeat.
Compiles(pattern) ==
    LET balance == Balance(pattern)
    IN /\ \A i \in 1..Len(balance) : balance[i] >= 0
       /\ balance[Len(balance)] = 0
       /\ \A i \in 1..Len(pattern) :
              pattern[i] = "*" => i > 1 /\ pattern[i - 1] \notin {"(", "*"}

Greatest(numbers) == CHOOSE m \in numbers : \A k \in numbers : k <= m

\* calculateMaxNesting, and the same loop at the end of isDangerousPattern:
\* currentNesting goes up with "(" and down with ")" but never below 0, so
\* at each point it is the balance there less the least balance up to
\* there; maxNesting is its greatest value.
CalculateMaxNesting(pattern) ==
    LET balance == Balance(pattern)
    IN Greatest(UNION {{balance[i] - balance[j] : j \in 1..i} :
                       i \in 1..Len(balance)})

\* /\([^)]*\){50,}/ and its two siblings: an opening character, characters
\* other than the closing one, then n closing characters in a row.
OpenThenRun(pattern, open, close, n) ==
    \E i \in 1..Len(pattern) :
        /\ pattern[i] = open
        /\ \E j \in (i + 1)..(Len(pattern) - n + 1) :
              /\ \A k \in (i + 1)..(j - 1) : pattern[k] # close
              /\ \A k \in j..(j + n - 1) : pattern[k] = close

\* n times /\([^)]*\)\*/ from position i on
RECURSIVE StarredGroupsAt(_, _, _)
StarredGroupsAt(pattern, i, n) ==
    IF n = 0 THEN TRUE
    ELSE /\ i <= Len(pattern) /\ pattern[i] = "("
         /\ \E j \in (i + 1)..(Len(pattern) - 1) :
               /\ pattern[j] = ")" /\ pattern[j + 1] = "*"
               /\ \A k \in (i + 1)..(j - 1) : pattern[k] # ")"
               /\ StarredGroupsAt(pattern, j + 2, n - 1)

\* /\([^)]*\([^)]* ... \)*\)/: n "(" with no ")" between them, then a ")"
OpenGroups(pattern, n) ==
    \E j \in 1..Len(pattern) :
        /\ pattern[j] = ")"
        /\ Cardinality({i \in 1..(j - 1) :
               /\ pattern[i] = "("
               /\ \A k \in i..(j - 1) : pattern[k] # ")"}) >= n

DecimalDigits == <<"0", "1", "2", "3", "4", "5", "6", "7", "8", "9">>
IsDigit(c) == \E d \in 1..10 : DecimalDigits[d] = c
RECURSIVE ParseInt(_)
ParseInt(digits) ==
    IF digits = <<>> THEN 0
    ELSE 10 * ParseInt(Front(digits))
         + (CHOOSE d \in 0..9 : DecimalDigits[d + 1] = digits[Len(digits)])

\* Some /\{([0-9]+),\}/ of the pattern has a number of 100 or more.
LongRepeat(pattern) ==
    \E i \in 1..Len(pattern) :
        /\ pattern[i] = "{"
        /\ \E j \in (i + 2)..(Len(pattern) - 1) :
              /\ pattern[j] = "," /\ pattern[j + 1] = "}"
              /\ \A k \in (i + 1)..(j - 1) : IsDigit(pattern[k])
              /\ ParseInt(SubSeq(pattern, i + 1, j - 1)) >= 100

\* /(\*|\+|\?)\1{5,}/
QuantifierRun(pattern) ==
    \E i \in 1..Len(pattern) :
        /\ pattern[i] \in {"*", "+", "?"} /\ i + 5 <= Len(pattern)
        /\ \A k \in 1..5 : pattern[i + k] = pattern[i]

\* isDangerousPattern
IsDangerousPattern(pattern) ==
    \/ OpenThenRun(pattern, "(", ")", 50)
    \/ OpenThenRun(pattern, "[", "]", 50)
    \/ OpenThenRun(pattern, "{", "}", 50)
    \/ \E i \in 1..Len(pattern) : StarredGroupsAt(pattern, i, 10)
    \/ OpenGroups(pattern, 11)
    \/ LongRepeat(pattern)
    \/ QuantifierRun(pattern)
    \/ CalculateMaxNesting(pattern) >= 10

\* analyzeComplexity
AnalyzeComplexity(pattern) ==
    LET score ==
            Count(pattern, LAMBDA i :
                pattern[i] \in {"(", "[", "{", "|", "?", "+", "*"})
            + CalculateMaxNesting(pattern) * 2
            + Count(pattern, LAMBDA i :
                  /\ pattern[i] = "\\" /\ i < Len(pattern)
                  /\ IsDigit(pattern[i + 1])) * 3
            + Count(pattern, LAMBDA i :
                  /\ pattern[i] = "(" /\ i + 2 <= Len(pattern)
                  /\ pattern[i + 1] = "?"
                  /\ pattern[i + 2] \in {"=", "!", "<"}) * 2
    IN IF score <= 5 THEN "low" ELSE IF score <= 15 THEN "medium" ELSE "high"

\* The warnings of validate, in the order they are pushed.
Warnings(pattern) ==
    (IF AnalyzeComplexity(pattern) = "high" THEN <<"complex">> ELSE <<>>)
    \o (IF Includes(pattern, <<".", "*", ".", "*">>)
        THEN <<".*.*">> ELSE <<>>)
    \o (IF Includes(pattern, <<"[", "^", "]">>) THEN <<"[^]">> ELSE <<>>)
    \o (IF \/ Includes(pattern, <<"(", ".", "*", ")", "*">>)
           \/ Includes(pattern, <<"(", ".", "*", ")", "+">>)
        THEN <<"(.*)*">> ELSE <<>>)
    \o (IF Len(pattern) > 200 THEN <<"long">> ELSE <<>>)

Invalid(error, complexity) ==
    [isValid |-> FALSE, error |-> error, complexity |-> complexity,
     warnings |-> Undefined]

\* (variant: the length is checked after the syntax)
ValidateSyntaxFirst(pattern) ==
    IF pattern = <<>> \/ Trim(pattern) = <<>>
    THEN Invalid("EMPTY_PATTERN", "low")
    ELSE IF ~Compiles(pattern)
    THEN Invalid("INVALID_REGEX", "low")
    ELSE IF Len(pattern) > MAX_PATTERN_LENGTH
    THEN Invalid("PATTERN_TOO_LONG", "high")
    ELSE IF IsDangerousPattern(pattern)
    THEN Invalid("DANGEROUS_PATTERN", "high")
    ELSE [isValid |-> TRUE, error |-> "none",
          complexity |-> AnalyzeComplexity(pattern),
          warnings |-> OrUndefined(Warnings(pattern))]

\* RegexValidator.validate
Validate(pattern) ==
    IF pattern = <<>> \/ Trim(pattern) = <<>>
    THEN Invalid("EMPTY_PATTERN", "low")
    ELSE IF Len(pattern) > MAX_PATTERN_LENGTH
    THEN Invalid("PATTERN_TOO_LONG", "high")
    ELSE IF ~Compiles(pattern)
    THEN Invalid("INVALID_REGEX", "low")
    ELSE IF IsDangerousPattern(pattern)
    THEN Invalid("DANGEROUS_PATTERN", "high")
    ELSE [isValid |-> TRUE, error |-> "none",
          complexity |-> AnalyzeComplexity(pattern),
          warnings |-> OrUndefined(Warnings(pattern))]

\* A call that throws, and one that returns.
Thrown(error) == [called |-> TRUE, thrown |-> TRUE, error |-> error]
RegexError(message) ==
    [class |-> "RegexError", name |-> "RegexError", message |-> message]

\* (variant: a pattern with warnings is refused)
CreateRegexNoWarnings(pattern) ==
    LET validation == Validate(pattern)
    IN IF ~validation.isValid THEN Thrown(RegexError(validation.error))
       ELSE IF validation.warnings.defined
       THEN Thrown(RegexError("warnings"))
       ELSE [called |-> TRUE, thrown |-> FALSE,
             value |-> [source |-> pattern],
             warned |-> validation.warnings.value]

\* RegexValidator.createRegex(pattern): the matcher is the pattern compiled,
\* the warnings go to the console.
CreateRegex(pattern) ==
    LET validation == Validate(pattern)
    IN IF ~validation.isValid THEN Thrown(RegexError(validation.error))
       ELSE [called |-> TRUE, thrown |-> FALSE,
             value |-> [source |-> pattern],
             warned |-> validation.warnings.value]

\* The characters of the patterns tried, and longer patterns at the limits
\* of the checks.
RegexChars == {"(", ")", "a", "*", ".", " "}
Nested(n, inner) == Repeat(<<"(">>, n) \o inner \o Repeat(<<")">>, n)
RegexSamples ==
    {Repeat(<<"a">>, n) : n \in {201, MAX_PATTERN_LENGTH,
                                 MAX_PATTERN_LENGTH + 1}}
    \cup {Repeat(<<" ">>, MAX_PATTERN_LENGTH + 1),
          Repeat(<<"(">>, MAX_PATTERN_LENGTH + 1),
          Repeat(<<"(">>, 10),
          Nested(9, Repeat(<<"a">>, MAX_PATTERN_LENGTH - 18)),
          Nested(10, Repeat(<<"a">>, MAX_PATTERN_LENGTH - 19))}
    \cup {Nested(n, <<"a", "*">>) : n \in 8..11}
    \cup {Repeat(<<"(", ")", "*">>, n) : n \in 9..10}
    \cup {<<"(", ".", "*", ")", "*">>, <<".", "*", ".", "*">>}

RegexInit ==
    /\ input \in Strings(RegexChars, MaxRegexLen) \cup RegexSamples
    /\ output = NotCalled
    /\ request = NoRequest
    /\ EngineIdle
    /\ NoSearch

\* validate(pattern) is called.
CallValidate ==
    /\ output = NotCalled
    /\ output' = Returned(Validate(input))
    /\ UNCHANGED <<input, request, engineVars, searchVars>>

\* createRegex(pattern) is called.
CallCreateRegex ==
    /\ output = NotCalled
    /\ output' = CreateRegex(input)
    /\ UNCHANGED <<input, request, engineVars, searchVars>>

RegexNext == CallValidate \/ CallCreateRegex

RegexSpec == RegexInit /\ [][RegexNext]_vars

\* ---------------------------------------------------------- TreeBuilder
DEFAULT_BATCH_SIZE == 1000
MAX_DEPTH == 50

\* TreeBuildOptions: maxDepth 0 stands for an option that is not given.
TreeBuildOptions(sortFoldersFirst, maxDepth) ==
    [sortFoldersFirst |-> sortFoldersFirst, maxDepth |-> maxDepth]

\* The nodes are objects: an entry of the node map holds the node under its
\* key, and the children of a folder are references to nodes, written as
\* their keys.
FileNode(label, resourceUri) ==
    [type |-> "file", label |-> label, resourceUri |-> resourceUri]
FolderNode(label) == [type |-> "folder", label |-> label, children |-> <<>>]

\* path.relative(workspaceRoot, fsPath).split(path.sep), for a file below
\* the workspace folder
RelativeParts(workspaceRoot, fsPath) ==
    SubSeq(fsPath, Len(workspaceRoot) + 1, Len(fsPath))

\* nodeMap.has(path): the map is the sequence of its entries in the order
\* they were set.
Has(nodeMap, path) == \E k \in 1..Len(nodeMap) : nodeMap[k].path = path

\* (variant: every prefix of the path gets a node)
CreateNodesForPathAlways(parts, fileUri, nodeMap) ==
    nodeMap \o [i \in 1..Len(parts) |->
                  [path |-> SubSeq(parts, 1, i),
                   node |-> IF i = Len(parts) THEN FileNode(parts[i], fileUri)
                            ELSE FolderNode(parts[i])]]

\* createNodesForPath: the prefixes of the path that have no node yet get
\* one, the folders first and the file last.
CreateNodesForPath(parts, fileUri, nodeMap) ==
    nodeMap \o SelectSeq(
        [i \in 1..Len(parts) |->
            [path |-> SubSeq(parts, 1, i),
             node |-> IF i = Len(parts) THEN FileNode(parts[i], fileUri)
                      ELSE FolderNode(parts[i])]],
        LAMBDA entry : ~Has(nodeMap, entry.path))

\* processBatch
RECURSIVE ProcessBatch(_, _, _, _)
ProcessBatch(files, workspaceRoot, nodeMap, options) ==
    IF files = <<>> THEN nodeMap
    ELSE LET parts == RelativeParts(workspaceRoot, Head(files))
         IN ProcessBatch(Tail(files), workspaceRoot,
                IF options.maxDepth # 0 /\ Len(parts) > options.maxDepth
                THEN nodeMap
                ELSE CreateNodesForPath(parts, Head(files), nodeMap),
                options)

\* buildNodeMap, from file i + 1 on
RECURSIVE BuildNodeMap(_, _, _, _, _)
BuildNodeMap(files, workspaceRoot, options, nodeMap, i) ==
    LET batchSize ==
            IF options.maxDepth # 0 /\ options.maxDepth < DEFAULT_BATCH_SIZE
            THEN options.maxDepth ELSE DEFAULT_BATCH_SIZE
        end == IF i + batchSize < Len(files) THEN i + batchSize
               ELSE Len(files)
    IN IF i >= Len(files) THEN nodeMap
       ELSE BuildNodeMap(files, workspaceRoot, options,
                ProcessBatch(SubSeq(files, i + 1, end), workspaceRoot,
                             nodeMap, options),
                i + batchSize)

\* toLowerCase, for the letters of the labels tried, and the place of a
\* letter in the alphabet.
ToLower(c) == CASE c = "A" -> "a" [] c = "B" -> "b" [] OTHER -> c
Letters == <<"a", "b", "c", "d", "f", "s", "t", "x">>
Rank(c) == CHOOSE k \in 1..Len(Letters) : Letters[k] = ToLower(c)

\* The collation elements of a label under { sensitivity: 'base',
\* numeric: true }: a run of digits counts as its number, a letter as
\* itself without its case.
RECURSIVE Elements(_)
Elements(label) ==
    IF label = <<>> THEN <<>>
    ELSE IF IsDigit(Head(label))
    THEN LET others == {i \in 1..Len(label) : ~IsDigit(label[i])}
             n == IF others = {} THEN Len(label)
                  ELSE (CHOOSE i \in others : \A k \in others : i <= k) - 1
         IN <<[number |-> TRUE, value |-> ParseInt(SubSeq(label, 1, n))]>>
            \o Elements(SubSeq(label, n + 1, Len(label)))
    ELSE <<[number |-> FALSE, value |-> Rank(Head(label))]>>
         \o Elements(Tail(label))

\* The comparison of two sequences of collation elements: numbers before
\* letters, -1, 0 or 1.
RECURSIVE CompareElements(_, _)
CompareElements(a, b) ==
    IF a = <<>> THEN (IF b = <<>> THEN 0 ELSE -1)
    ELSE IF b = <<>> THEN 1
    ELSE IF Head(a).number /\ ~Head(b).number THEN -1
    ELSE IF ~Head(a).number /\ Head(b).number THEN 1
    ELSE IF Head(a).value < Head(b).value THEN -1
    ELSE IF Head(a).value > Head(b).value THEN 1
    ELSE CompareElements(Tail(a), Tail(b))

\* a.localeCompare(b, undefined, { sensitivity: 'base', numeric: true })
LocaleCompare(a, b) == CompareElements(Elements(a), Elements(b))

\* The node a reference points to.
NodeAt(nodes, path) ==
    (CHOOSE entry \in {nodes[k] : k \in 1..Len(nodes)} :
        entry.path = path).node

\* The comparison function of sortTreeNodes
CompareNodes(a, b) ==
    IF a.type = "folder" /\ b.type # "folder" THEN -1
    ELSE IF a.type # "folder" /\ b.type = "folder" THEN 1
    ELSE LocaleCompare(a.label, b.label)

\* Array.prototype.sort, which is stable: a node goes behind the nodes that
\* do not come after it.
RECURSIVE Sorted(_, _)
Sorted(array, nodes) ==
    IF array = <<>> THEN <<>>
    ELSE LET front == Sorted(Front(array), nodes)
             node == NodeAt(nodes, Top(array))
             before == SelectSeq(front, LAMBDA n :
                           CompareNodes(NodeAt(nodes, n), node) <= 0)
             after == SelectSeq(front, LAMBDA n :
                          CompareNodes(NodeAt(nodes, n), node) > 0)
         IN before \o <<Top(array)>> \o after

\* sortTreeNodes: the array is sorted, then the children of each node that
\* has some; every node with children is reached from the roots.
SortTreeNodes(tree) ==
    [rootNodes |-> Sorted(tree.rootNodes, tree.nodes),
     nodes |-> [k \in 1..Len(tree.nodes) |->
                   IF tree.nodes[k].node.type = "folder"
                   THEN [tree.nodes[k] EXCEPT
                            !.node.children = Sorted(@, tree.nodes)]
                   ELSE tree.nodes[k]]]

\* The keys of the entries of the map a condition selects, in its order.
Keys(nodeMap, Selected(_)) ==
    LET entries == SelectSeq(nodeMap, Selected)
    IN [i \in 1..Len(entries) |-> entries[i].path]

\* The loop of buildHierarchy: a node whose path.dirname is "." is pushed
\* to the roots, another one to the children of the folder at its
\* path.dirname.
Hierarchy(nodeMap) ==
    [rootNodes |-> Keys(nodeMap, LAMBDA entry : Len(entry.path) = 1),
     nodes |-> [k \in 1..Len(nodeMap) |->
                   IF nodeMap[k].node.type = "folder"
                   THEN [nodeMap[k] EXCEPT !.node.children =
                            Keys(nodeMap, LAMBDA entry :
                                /\ Len(entry.path) > 1
                                /\ Front(entry.path) = nodeMap[k].path)]
                   ELSE nodeMap[k]]]

\* (variant: the nodes stay in the order of the map)
BuildHierarchyUnsorted(nodeMap, options) == Hierarchy(nodeMap)

\* buildHierarchy
BuildHierarchy(nodeMap, options) ==
    IF options.sortFoldersFirst THEN SortTreeNodes(Hierarchy(nodeMap))
    ELSE Hierarchy(nodeMap)

\* What buildFileTree returns for no file.
NoTree == [rootNodes |-> <<>>, nodes |-> <<>>]

\* TreeBuilder.buildFileTree, a workspace folder being open
BuildFileTree(files, options) ==
    IF files = <<>> THEN NoTree
    ELSE BuildHierarchy(BuildNodeMap(files, Workspace, options, <<>>, 0),
                        options)

\* The files given to the builder: matched files of the workspace folder
\* and of its subfolders, and one below MAX_DEPTH folders.
DeepFile == Workspace \o Repeat(<<<<"d">>>>, MAX_DEPTH) \o <<<<"f">>>>
TreeFiles ==
    {Workspace \o <<<<"a", "1", "0">>>>, Workspace \o <<<<"a", "2">>>>,
     Workspace \o <<<<"B">>>>, Workspace \o <<<<"b">>, <<"c">>>>,
     Workspace \o <<<<"s">>, <<"b", "a">>>>,
     Workspace \o <<<<"s">>, <<"A">>>>,
     Workspace \o <<<<"s">>, <<"t">>, <<"c">>>>}
TreeFileLists ==
    {files \in UNION {[1..n -> TreeFiles] : n \in 0..(MaxLen + 1)} :
        \A i, j \in 1..Len(files) : files[i] = files[j] => i = j}
    \cup {<<DeepFile>>, <<DeepFile, Workspace \o <<<<"B">>>>>>}

TreeInit ==
    /\ input \in [files : TreeFileLists,
                  options : [sortFoldersFirst : BOOLEAN,
                             maxDepth : 0..MaxTreeDepth]]
    /\ output = NotCalled
    /\ request = NoRequest
    /\ EngineIdle
    /\ NoSearch

\* buildFileTree(files, options) is called.
CallBuildFileTree ==
    /\ output = NotCalled
    /\ output' = Returned(BuildFileTree(input.files, input.options))
    /\ UNCHANGED <<input, request, engineVars, searchVars>>

TreeNext == CallBuildFileTree

TreeSpec == TreeInit /\ [][TreeNext]_vars

\* ------------------------------------------------------------ the search
\* `options.batchSize || 100` and `options.maxResults || 10000`
DefaultBatchSize == 100
DefaultMaxResults == 10000
BatchSizeOf(options) ==
    IF options.batchSize = 0 THEN DefaultBatchSize ELSE options.batchSize
MaxResultsOf(options) ==
    IF options.maxResults = 0 THEN DefaultMaxResults ELSE options.maxResults

\* What vscode.workspace.findFiles returns: the files of the workspace the
\* globs select, in the order of the enumeration.
Candidates ==
    <<Workspace \o <<<<"a">>>>, Workspace \o <<<<"a", "b">>>>,
      Workspace \o <<<<"s">>, <<"b", "a">>>>>>
Enumerations == {SubSeq(Candidates, 1, k) : k \in 0..Len(Candidates)}

\* The search patterns configured: the third matches a folder name only,
\* the last two are rejected by RegexValidator.
SearchPatterns == {<<"a">>, <<"b">>, <<"s">>, <<>>, <<"(">>}

\* (variant: the pattern is checked before the workspace)
CheckPatternFirst(options) ==
    LET validation == Validate(options.searchPattern)
    IN IF ~validation.isValid THEN validation.error
       ELSE IF ~options.workspaceOpen THEN "WORKSPACE_NOT_OPEN"
       ELSE "ok"

\* The checks at the start of searchFiles: no workspace folder is open,
\* RegexValidator rejects the pattern, or they pass.
Check(options) ==
    LET validation == Validate(options.searchPattern)
    IN IF ~options.workspaceOpen THEN "WORKSPACE_NOT_OPEN"
       ELSE IF ~validation.isValid THEN validation.error
       ELSE "ok"

\* new SearchError(message), and an error of the host named Canceled.
SearchError(message) ==
    [class |-> "SearchError", name |-> "SearchError", message |-> message]

\* Result<SearchResult, SearchError>
Success(files) ==
    [success |-> TRUE, files |-> files, totalCount |-> Len(files)]
Failure(error) == [success |-> FALSE, error |-> error]

\* ErrorHandler.showError: the message shown to the user, if any.
NoMessage == [shown |-> FALSE]
ShowError(error) ==
    IF error.class \in {"RegexError", "SearchError", "ConfigError",
                         "RenameError"}
    THEN [shown |-> TRUE, kind |-> error.class, text |-> error.message]
    ELSE IF error.name = "Canceled" THEN NoMessage
    ELSE [shown |-> TRUE, kind |-> "unknown", text |-> error.message]

\* A searchFiles call before its checks; findFilesCalls counts its calls
\* of vscode.workspace.findFiles.
NewSearch(searchId) ==
    [searchId |-> searchId, pc |-> "findFiles", allFiles |-> <<>>, i |-> 0,
     matchedFiles |-> <<>>, isCancellationRequested |-> FALSE,
     findFilesCalls |-> 0]

\* (variant: the loop does not look at the token nor at the search id)
CancelledNever(search, current) == FALSE

\* (variant: only the token is looked at)
CancelledByToken(search, current) == search.isCancellationRequested

\* `token.isCancellationRequested || this._currentSearchId !== searchId`
Cancelled(search, current) ==
    search.isCancellationRequested \/ current # search.searchId

\* (variant: the pattern is tested against the name of the folder)
IterationFolderName(search, current, pattern, options) ==
    LET batchSize == BatchSizeOf(options)
        maxResults == MaxResultsOf(options)
        i == search.i
        all == search.allFiles
        stop == IF i + batchSize < Len(all) THEN i + batchSize ELSE Len(all)
        batch == SubSeq(all, i + 1, stop)
        batchMatches ==
            SelectSeq(batch, LAMBDA file : Occurs(pattern, PathBasename(PathDirname(file))))
        matchedFiles == search.matchedFiles \o batchMatches
    IN IF Cancelled(search, current)
       THEN [done |-> TRUE, result |-> Failure(SearchError("CANCELLED"))]
       ELSE IF Len(matchedFiles) >= maxResults \/ i + batchSize >= Len(all)
       THEN [done |-> TRUE, result |-> Success(matchedFiles)]
       ELSE [done |-> FALSE,
             search |-> [search EXCEPT !.pc = "batch", !.i = i + batchSize,
                                       !.matchedFiles = matchedFiles]]

\* One iteration of the batch loop of performFileSearch, from the
\* cancellation check to the await that follows the batch, to the break or
\* to the end of the loop.
Iteration(search, current, pattern, options) ==
    LET batchSize == BatchSizeOf(options)
        maxResults == MaxResultsOf(options)
        i == search.i
        all == search.allFiles
        stop == IF i + batchSize < Len(all) THEN i + batchSize ELSE Len(all)
        batch == SubSeq(all, i + 1, stop)
        batchMatches ==
            SelectSeq(batch, LAMBDA file : Occurs(pattern, PathBasename(file)))
        matchedFiles == search.matchedFiles \o batchMatches
    IN IF Cancelled(search, current)
       THEN [done |-> TRUE, result |-> Failure(SearchError("CANCELLED"))]
       ELSE IF Len(matchedFiles) >= maxResults \/ i + batchSize >= Len(all)
       THEN [done |-> TRUE, result |-> Success(matchedFiles)]
       ELSE [done |-> FALSE,
             search |-> [search EXCEPT !.pc = "batch", !.i = i + batchSize,
                                       !.matchedFiles = matchedFiles]]

\* The options executeSearch of the provider builds the tree with.
ProviderOptions == TreeBuildOptions(TRUE, 20)

\* The lists of files a search can return: the candidates it kept, in the
\* order of the enumeration.
RECURSIVE SubLists(_)
SubLists(files) ==
    IF files = <<>> THEN <<<<>>>>
    ELSE LET rest == SubLists(Tail(files))
         IN rest \o [i \in 1..Len(rest) |-> <<Head(files)>> \o rest[i]]
ResultLists == SubLists(Candidates)

\* TreeBuilder.buildFileTree(result.data.files, treeOptions) of
\* executeSearch, computed once for each list of files.
Trees ==
    SubSeq([i \in 1..Len(ResultLists) |->
               BuildFileTree(ResultLists[i], ProviderOptions)],
           1, Len(ResultLists))
TreeOf(files) ==
    Trees[CHOOSE i \in 1..Len(ResultLists) : ResultLists[i] = files]

\* SearchTreeProvider.getSearchState(): the files are the roots of the tree
\* that are files.
GetSearchState ==
    [state |-> searchState,
     results |->
        IF searchState = "completed"
        THEN LET files == SelectSeq(searchResults.rootNodes, LAMBDA node :
                              NodeAt(searchResults.nodes, node).type = "file")
             IN [defined |-> TRUE,
                 files |-> [i \in 1..Len(files) |->
                     NodeAt(searchResults.nodes, files[i]).resourceUri],
                 totalCount |-> Len(searchResults.rootNodes)]
        ELSE [defined |-> FALSE]]

\* (variant: a failure leaves the state of the provider as it is)
ReturnKeepsState(search, result) ==
    /\ searches' = {other \in searches : other.searchId # search.searchId}
    /\ isSearching' = FALSE
    /\ currentSearchId' = 0
    /\ finished' = [searchId |-> search.searchId, result |-> result,
                    partial |-> search.matchedFiles,
                    allFiles |-> search.allFiles,
                    findFilesCalls |-> search.findFilesCalls,
                    isCancellationRequested |-> search.isCancellationRequested,
                    message |-> IF result.success THEN NoMessage
                                ELSE ShowError(result.error)]
    /\ IF result.success
       THEN /\ searchResults' = TreeOf(result.files)
            /\ searchState' = "completed"
       ELSE UNCHANGED <<searchState, searchResults>>
    /\ UNCHANGED config

\* A searchFiles call returns: the finally block resets the flags of the
\* service, and executeSearch of the provider goes on with the result.
Return(search, result) ==
    /\ searches' = {other \in searches : other.searchId # search.searchId}
    /\ isSearching' = FALSE
    /\ currentSearchId' = 0
    /\ finished' = [searchId |-> search.searchId, result |-> result,
                    partial |-> search.matchedFiles,
                    allFiles |-> search.allFiles,
                    findFilesCalls |-> search.findFilesCalls,
                    isCancellationRequested |-> search.isCancellationRequested,
                    message |-> IF result.success THEN NoMessage
                                ELSE ShowError(result.error)]
    /\ IF result.success
       THEN /\ searchResults' = TreeOf(result.files)
            /\ searchState' = "completed"
       ELSE searchState' = "error" /\ UNCHANGED searchResults
    /\ UNCHANGED config

\* The loop of performFileSearch runs up to its next await or to its end.
RunLoop(before, search) ==
    LET step == Iteration(search, currentSearchId, config.searchPattern, config)
    IN IF step.done THEN Return(search, step.result)
       ELSE /\ searches' = (searches \ {before}) \cup {step.search}
            /\ UNCHANGED <<searchState, searchResults, currentSearchId,
                           isSearching, finished, config>>

\* SearchTreeProvider.executeSearch() up to the first await of searchFiles,
\* where findFiles has been called; while the state is searching the call
\* returns at once.
ExecuteSearch(check) ==
    /\ searchState # "searching"
    /\ searchCount < MaxSearches
    /\ searchCount' = searchCount + 1
    /\ IF check = "ok"
       THEN /\ searchState' = "searching"
            /\ currentSearchId' = searchCount + 1
            /\ isSearching' = TRUE
            /\ searches' = searches \cup
                   {[NewSearch(searchCount + 1) EXCEPT !.findFilesCalls = 1]}
            /\ UNCHANGED <<searchResults, finished, config>>
       ELSE Return(NewSearch(searchCount + 1), Failure(SearchError(check)))

\* findFiles resolves with the candidates.
FindFilesReturns(search, allFiles) ==
    /\ search \in searches /\ search.pc = "findFiles"
    /\ UNCHANGED searchCount
    /\ IF allFiles = <<>> THEN Return(search, Success(<<>>))
       ELSE RunLoop(search, [search EXCEPT !.allFiles = allFiles])

\* findFiles rejects.
FindFilesFails(search) ==
    /\ search \in searches /\ search.pc = "findFiles"
    /\ UNCHANGED searchCount
    /\ Return(search, Failure(SearchError("SEARCH_FAILED")))

\* The loop resumes after `await new Promise(resolve => setImmediate(..))`.
NextBatch(search) ==
    /\ search \in searches /\ search.pc = "batch"
    /\ UNCHANGED searchCount
    /\ RunLoop(search, search)

\* The user cancels the progress notification of a search.
CancellationRequested(search) ==
    /\ search \in searches /\ ~search.isCancellationRequested
    /\ searches' = (searches \ {search})
                   \cup {[search EXCEPT !.isCancellationRequested = TRUE]}
    /\ currentSearchId' = 0
    /\ UNCHANGED <<searchState, searchResults, isSearching, searchCount,
                   finished, config>>

\* SearchTreeProvider.clearResults()
ClearResults ==
    /\ searchResults' = NoTree
    /\ searchState' = "idle"
    /\ UNCHANGED <<currentSearchId, isSearching, searches, searchCount,
                   finished, config>>

SearchInit ==
    /\ searchState = "idle"
    /\ searchResults = [rootNodes |-> <<>>, nodes |-> <<>>]
    /\ currentSearchId = 0
    /\ isSearching = FALSE
    /\ searches = {}
    /\ searchCount = 0
    /\ finished = [searchId |-> 0]
    /\ config \in [searchPattern : SearchPatterns, workspaceOpen : BOOLEAN,
                   batchSize : 0..MaxBatchSize, maxResults : 0..MaxMaxResults]
    /\ input = <<>>
    /\ output = NotCalled
    /\ request = NoRequest
    /\ EngineIdle

restVars == <<engineVars, input, output, request>>

SearchNext ==
    \/ ExecuteSearch(Check(config)) /\ UNCHANGED restVars
    \/ \E search \in searches, allFiles \in Enumerations :
          FindFilesReturns(search, allFiles) /\ UNCHANGED restVars
    \/ \E search \in searches : FindFilesFails(search) /\ UNCHANGED restVars
    \/ \E search \in searches : NextBatch(search) /\ UNCHANGED restVars
    \/ \E search \in searches :
          CancellationRequested(search) /\ UNCHANGED restVars
    \/ ClearResults /\ UNCHANGED restVars

SearchSpec == SearchInit /\ [][SearchNext]_vars

\* The host settles the promise of findFiles and runs the callbacks of
\* setImmediate: a search in flight is resumed in the end.
Resume ==
    \E search \in searches :
       \/ \E allFiles \in Enumerations : FindFilesReturns(search, allFiles)
       \/ FindFilesFails(search)
       \/ NextBatch(search)

\* The searches of one file a batch, or of the default batch size, with a
\* result limit of one file or the default one.
LiveSearchInit ==
    SearchInit /\ config.batchSize <= 1 /\ config.maxResults <= 1

LiveSearchSpec ==
    /\ LiveSearchInit
    /\ [][SearchNext]_vars
    /\ WF_vars(Resume /\ UNCHANGED restVars)

\* ----------------------------------------- the results seen by a rename
\* The preview and the rename request of SearchInputViewProvider take the
\* files from getSearchState(); they are made between the steps of the
\* searches.  input holds the replacement string configured, and cleared:
\* clearResults has been called and executeSearch has not been since.

\* The entries of the previewUpdate message.
Posted(previews) ==
    LET shown == SubSeq(previews, 1, IF Len(previews) < 5 THEN Len(previews)
                                     ELSE 5)
    IN [i \in 1..Len(shown) |->
           [oldFileName |-> shown[i].oldFileName,
            newFileName |-> shown[i].newFileName,
            needsDirectoryMove |-> shown[i].needsDirectoryMove]]

\* SearchInputViewProvider.updatePreview(), the view being there
UpdatePreview ==
    LET searchResults_ == GetSearchState
        previews ==
            IF config.searchPattern = <<>> \/ input.replacement = <<>>
            THEN <<>>
            ELSE IF ~searchResults_.results.defined THEN <<>>
            ELSE PreviewRename(searchResults_.results.files,
                               config.searchPattern, input.replacement)
    IN /\ output' = Returned(Posted(previews))
       /\ UNCHANGED <<input, request, engineVars, searchVars>>

\* SearchInputViewProvider.executeRename() up to its first await: a
\* warning when there is nothing to rename, validateRename otherwise.
BeginRename ==
    LET n == request.n + 1
        searchResults_ == GetSearchState
        Stopped(stage) ==
            RenameRequest(n, stage, <<>>, NotCalled, FALSE, "none")
    IN /\ request.n < MaxRequests
       /\ request' =
             IF config.searchPattern = <<>> \/ input.replacement = <<>>
             THEN Stopped("noReplacement")
             ELSE IF \/ ~searchResults_.results.defined
                     \/ searchResults_.results.files = <<>>
             THEN Stopped("noFiles")
             ELSE LET previews ==
                          PreviewRename(searchResults_.results.files,
                                        config.searchPattern,
                                        input.replacement)
                  IN IF previews = <<>> THEN Stopped("noPreviews")
                     ELSE RenameRequest(n, "validating", previews, NotCalled,
                                        FALSE, "none")
       /\ UNCHANGED <<input, output, engineVars, searchVars>>

\* The replacement strings configured.
Replacements == {<<>>, <<"b">>}

ResultsInit ==
    /\ searchState = "idle"
    /\ searchResults = NoTree
    /\ currentSearchId = 0
    /\ isSearching = FALSE
    /\ searches = {}
    /\ searchCount = 0
    /\ finished = [searchId |-> 0]
    /\ config \in [searchPattern : SearchPatterns, workspaceOpen : BOOLEAN,
                   batchSize : 0..1, maxResults : {0}]
    /\ input \in [replacement : Replacements, cleared : {FALSE}]
    /\ output = NotCalled
    /\ request = NoRequest
    /\ EngineIdle

ResultsNext ==
    \/ /\ ExecuteSearch(Check(config))
       /\ input' = [input EXCEPT !.cleared = FALSE]
       /\ UNCHANGED <<engineVars, output, request>>
    \/ \E search \in searches, allFiles \in Enumerations :
          FindFilesReturns(search, allFiles) /\ UNCHANGED restVars
    \/ \E search \in searches : FindFilesFails(search) /\ UNCHANGED restVars
    \/ \E search \in searches : NextBatch(search) /\ UNCHANGED restVars
    \/ \E search \in searches :
          CancellationRequested(search) /\ UNCHANGED restVars
    \/ /\ ClearResults
       /\ input' = [input EXCEPT !.cleared = TRUE]
       /\ UNCHANGED <<engineVars, output, request>>
    \/ UpdatePreview
    \/ BeginRename

ResultsSpec == ResultsInit /\ [][ResultsNext]_vars

\* --------------------------------------------------- the globs of a search
\* patterns.join(',')
RECURSIVE Join(_, _)
Join(patterns, separator) ==
    IF patterns = <<>> THEN <<>>
    ELSE IF Len(patterns) = 1 THEN patterns[1]
    ELSE patterns[1] \o separator \o Join(Tail(patterns), separator)

\* folders.map(folder => folder.trim()).filter(folder => folder.length > 0)
Patterns(folders) ==
    SelectSeq([i \in 1..Len(folders) |-> Trim(folders[i])],
              LAMBDA folder : Len(folder) > 0)

AllFiles == <<"*", "*", "/", "*">>
Null == <<"null">>

\* `{${patterns.join(',')}}`
Braces(patterns) == <<"{">> \o Join(patterns, <<",">>) \o <<"}">>

\* (variant: blank entries are kept)
BuildIncludeGlobRaw(includeFolders) ==
    IF Len(includeFolders) = 0 THEN AllFiles
    ELSE IF Len(includeFolders) = 1 THEN includeFolders[1]
    ELSE Braces(includeFolders)

\* FileSearchService.buildIncludeGlob
BuildIncludeGlob(includeFolders) ==
    IF Len(includeFolders) = 0 THEN AllFiles
    ELSE LET patterns == Patterns(includeFolders)
         IN IF Len(patterns) = 0 THEN AllFiles
            ELSE IF Len(patterns) = 1 THEN patterns[1]
            ELSE Braces(patterns)

\* FileSearchService.buildExcludeGlob
BuildExcludeGlob(excludeFolders) ==
    IF Len(excludeFolders) = 0 THEN Null
    ELSE LET patterns == Patterns(excludeFolders)
         IN IF Len(patterns) = 0 THEN Null
            ELSE IF Len(patterns) = 1 THEN patterns[1]
            ELSE Braces(patterns)

\* The entries of the include and exclude lists tried.
GlobChars == {"a", " "}
FolderLists ==
    UNION {[1..n -> Strings(GlobChars, MaxPatLen)] : n \in 0..(MaxLen + 1)}

GlobInit ==
    /\ input \in FolderLists
    /\ output = NotCalled
    /\ request = NoRequest
    /\ EngineIdle
    /\ NoSearch

\* performFileSearch builds the include glob it passes to findFiles.
CallBuildIncludeGlob ==
    /\ output = NotCalled
    /\ output' = [called |-> TRUE, include |-> BuildIncludeGlob(input)]
    /\ UNCHANGED <<input, request, engineVars, searchVars>>

\* performFileSearch builds the exclude glob it passes to findFiles.
CallBuildExcludeGlob ==
    /\ output = NotCalled
    /\ output' = [called |-> TRUE, exclude |-> BuildExcludeGlob(input)]
    /\ UNCHANGED <<input, request, engineVars, searchVars>>

GlobNext == CallBuildIncludeGlob \/ CallBuildExcludeGlob

GlobSpec == GlobInit /\ [][GlobNext]_vars

\* ================================================================= claims
\* The (from, to) pairs a call attempted, in the order it attempted them.
Attempted(call) == [i \in 1..Len(call.moves) |-> Pair(call.moves[i])]

\* The (old path, new path) pairs of a preview list.
PreviewPairs(previews) ==
    [i \in 1..Len(previews) |->
        [from |-> previews[i].oldPath, to |-> previews[i].newPath]]

\* C1: round trip.  After an executeRename that returned failureCount = 0,
\* an immediately following undo returns failureCount = 0 and puts the
\* filesystem back as it was before the rename, and a redo following that
\* undo returns failureCount = 0 and restores the filesystem as it was
\* after the rename.
C1_RoundTrip ==
    [][ /\ (roundTrip.stage = 1 /\ last'.op = "undo")
            => (last'.result.failureCount = 0 /\ fs' = roundTrip.pre)
        /\ (roundTrip.stage = 2 /\ last'.op = "redo")
            => (last'.result.failureCount = 0 /\ fs' = roundTrip.post) ]_vars

\* C5: move ordering.  executeRename attempts its moves in entry-list
\* order; every undo replays the entry's moves target-to-source in the
\* reverse of the order in which they were executed; every redo replays
\* them source-to-target in the order in which they were executed.
C5_MoveOrdering ==
    [][ /\ (last'.op = "execute" /\ last'.moves # <<>>)
            => Attempted(last') = PreviewPairs(last'.previews)
        /\ (last'.op = "undo" /\ last'.error = "none")
            => Attempted(last') = Backward(Reverse(Top(undoHistory).executed))
        /\ (last'.op = "redo" /\ last'.error = "none")
            => Attempted(last') = Top(redoHistory).executed ]_vars

EngineOps == {"execute", "undo", "redo"}

\* The files present in a filesystem.
FilesOf(f) == {f[p] : p \in Paths} \ {NoFile}

\* From f to g every file is kept, each at exactly one path.
NoDataLoss(f, g) ==
    /\ FilesOf(g) = FilesOf(f)
    /\ \A x \in FilesOf(f) : Cardinality({p \in Paths : g[p] = x}) = 1

RECURSIVE Replay(_, _)
\* The filesystem in which exactly the successful attempts of a log have
\* been applied, in order.
Replay(f, log) ==
    IF log = <<>> THEN f
    ELSE Replay(IF Head(log).ok THEN DoRename(f, Head(log).from, Head(log).to)
                ELSE f,
                Tail(log))

\* C2 as claimed: no engine call loses or duplicates a file, and of two
\* attempted entries with the same target the first move succeeds while the
\* later one fails and its file stays at its old path.
C2_NoDataLossAsClaimed ==
    [][ last'.op \in EngineOps =>
          /\ NoDataLoss(fs, fs')
          /\ last'.op = "execute" =>
                \A i, j \in 1..Len(last'.moves) :
                    (i < j /\ last'.moves[i].to = last'.moves[j].to) =>
                        /\ last'.moves[i].ok
                        /\ ~last'.moves[j].ok
                        /\ fs'[last'.moves[j].from] = fs[last'.moves[j].from] ]_vars

\* C2 (amended): no engine call loses or duplicates a file; of two attempted
\* entries with the same target, if the target is free when the first is
\* attempted, the first move succeeds while the later one fails and its file
\* stays at its old path; if the target is occupied then, the first move
\* fails as well.
C2_NoDataLoss ==
    [][ last'.op \in EngineOps =>
          /\ NoDataLoss(fs, fs')
          /\ last'.op = "execute" =>
                \A i, j \in 1..Len(last'.moves) :
                    (i < j /\ last'.moves[i].to = last'.moves[j].to) =>
                        LET before == Replay(fs, SubSeq(last'.moves, 1, i - 1))
                        IN IF before[last'.moves[i].to] = NoFile
                           THEN /\ last'.moves[i].ok
                                /\ ~last'.moves[j].ok
                                /\ fs'[last'.moves[j].from] = fs[last'.moves[j].from]
                                /\ fs[last'.moves[j].from] # NoFile
                           ELSE ~last'.moves[i].ok ]_vars

\* Two entries with the same free target: the first moved, the second did
\* not.
C2_Witness ==
    /\ last.op = "execute"
    /\ Len(last.moves) = 2
    /\ last.moves[1].to = last.moves[2].to
    /\ last.moves[1].ok
    /\ ~last.moves[2].ok
    /\ fs[last.moves[2].from] # NoFile

\* C3: history cap.  Each stack holds at most maxHistorySize entries, and an
\* executeRename that records an entry while the undo stack is full evicts
\* the oldest entry and keeps the others with the newest on top.
C3_HistoryCap ==
    [][ /\ Len(undoHistory') <= maxHistorySize
        /\ Len(redoHistory') <= maxHistorySize
        /\ (last'.op = "execute" /\ last'.result.successCount > 0
              /\ Len(undoHistory) = maxHistorySize)
            => /\ Len(undoHistory') = maxHistorySize
               /\ Front(undoHistory') = Tail(undoHistory)
               /\ Top(undoHistory').id = nextId' ]_vars

\* The eleventh entry has just been recorded and the first one is gone.
C3_Witness ==
    /\ last.op = "execute"
    /\ Len(undoHistory) = maxHistorySize
    /\ undoHistory[1].id = 2
    /\ Top(undoHistory).id = maxHistorySize + 1

\* C4 as claimed: after any executeRename has returned the redo stack is
\* empty, and a redo that follows it fails with the no-redo-history error.
C4_LinearHistoryAsClaimed ==
    [][ /\ last'.op = "execute" => redoHistory' = <<>>
        /\ (last.op = "execute" /\ last'.op = "redo")
            => last'.error = "NO_REDO_HISTORY" ]_vars

\* C4 (amended): after an executeRename in which at least one move succeeded
\* has returned, the redo stack is empty, and a redo that follows it fails
\* with the no-redo-history error and moves nothing.
C4_LinearHistory ==
    [][ /\ (last'.op = "execute" /\ last'.result.successCount > 0)
            => redoHistory' = <<>>
        /\ (last.op = "execute" /\ last.result.successCount > 0
              /\ last'.op = "redo")
            => (last'.error = "NO_REDO_HISTORY" /\ fs' = fs) ]_vars

\* A redo failed after execute, undo, execute: two entries were created,
\* one is on the undo stack and the undone one is gone.
C4_Witness ==
    /\ last.op = "redo"
    /\ last.error = "NO_REDO_HISTORY"
    /\ nextId = 2
    /\ Len(undoHistory) = 1
    /\ undoHistory[1].id = 2

\* The same RenameHistory object, whatever the order of its array.
SameEntry(x, y) ==
    /\ x.id = y.id
    /\ x.executed = y.executed
    /\ {x.fileMapping[i] : i \in 1..Len(x.fileMapping)}
         = {y.fileMapping[i] : i \in 1..Len(y.fileMapping)}

\* C6: an undo that finds history removes exactly the top entry of the undo
\* stack and pushes that entry on top of the redo stack, however many of
\* its moves succeeded; redo does the mirror; the other entries of both
\* stacks stay where they are.
C6_StackTransfer ==
    [][ /\ (last'.op = "undo" /\ canUndo)
            => /\ undoHistory' = Front(undoHistory)
               /\ Len(redoHistory') = Len(redoHistory) + 1
               /\ Front(redoHistory') = redoHistory
               /\ SameEntry(Top(redoHistory'), Top(undoHistory))
        /\ (last'.op = "redo" /\ canRedo)
            => /\ redoHistory' = Front(redoHistory)
               /\ Len(undoHistory') = Len(undoHistory) + 1
               /\ Front(undoHistory') = undoHistory
               /\ SameEntry(Top(undoHistory'), Top(redoHistory)) ]_vars

\* An undo in which one move succeeded and one failed has moved its entry
\* to the redo stack, above an older entry.
C6_Witness ==
    /\ last.op = "undo"
    /\ last.result.successCount = 1
    /\ last.result.failureCount = 1
    /\ Len(redoHistory) = 2
    /\ Top(redoHistory).id = 1

\* C7: a fresh engine has both stacks empty; undo on an empty undo stack
\* signals NO_UNDO_HISTORY and redo on an empty redo stack signals
\* NO_REDO_HISTORY, attempting no move and changing neither stack nor the
\* filesystem.
C7_EmptyHistory ==
    /\ ~canUndo /\ ~canRedo
    /\ [][ /\ (last'.op = "undo" /\ ~canUndo)
               => /\ last'.error = "NO_UNDO_HISTORY"
                  /\ last'.moves = <<>>
                  /\ UNCHANGED <<fs, dirs, undoHistory, redoHistory>>
           /\ (last'.op = "redo" /\ ~canRedo)
               => /\ last'.error = "NO_REDO_HISTORY"
                  /\ last'.moves = <<>>
                  /\ UNCHANGED <<fs, dirs, undoHistory, redoHistory>> ]_vars

\* A redo was refused while the undo stack held an entry.
C7_Witness ==
    /\ last.op = "redo"
    /\ last.error = "NO_REDO_HISTORY"
    /\ canUndo
    /\ ~canRedo

\* A directory an entry needs is missing and the host refuses to create it.
DirectoryCreationFails(previews, ds) ==
    \E i \in 1..Len(previews) :
        /\ previews[i].needsDirectoryMove
        /\ Dirname(previews[i].newPath) \notin ds
        /\ Dirname(previews[i].newPath) \in readOnly

\* C8: when creating a required directory fails, executeRename returns
\* successCount = 0 and failureCount = the number of entries, attempts no
\* move, leaves every file where it is and leaves both stacks unchanged.
C8_DirectoryFailure ==
    [][ (last'.op = "execute" /\ DirectoryCreationFails(last'.previews, dirs))
          => /\ last'.result.successCount = 0
             /\ last'.result.failureCount = Len(last'.previews)
             /\ last'.moves = <<>>
             /\ UNCHANGED <<fs, undoHistory, redoHistory>> ]_vars

\* A batch of two entries, one into the subfolder that cannot be created,
\* was refused and both files are where they were.
C8_Witness ==
    /\ last.op = "execute"
    /\ last.error = "DIRECTORY_CREATE_FAILED"
    /\ Len(last.previews) = 2
    /\ last.result.failureCount = 2
    /\ fs["/a"] = 1 /\ fs["/b"] = 2

\* The entries a call's move loop goes through.
Planned(call, undo, redo) ==
    IF call.op = "execute" THEN PreviewPairs(call.previews)
    ELSE IF call.op = "undo" THEN Backward(Top(undo).fileMapping)
    ELSE Top(redo).fileMapping

\* C9: in the move loop of executeRename, undo and redo a failed move
\* neither stops nor rolls back the batch: every entry is attempted, the
\* filesystem afterwards is the one in which exactly the successful moves
\* were applied, successCount + failureCount is the number of entries, and
\* there is one error record per failed entry, naming its file.
C9_FailuresDoNotStop ==
    [][ (last'.op \in EngineOps /\ last'.error = "none") =>
          LET n == Len(Planned(last', undoHistory, redoHistory))
          IN /\ Len(last'.moves) = n
             /\ {Attempted(last')[i] : i \in 1..n}
                  = {Planned(last', undoHistory, redoHistory)[i] : i \in 1..n}
             /\ fs' = Replay(fs, last'.moves)
             /\ last'.result.successCount = Len(Succeeded(last'.moves))
             /\ last'.result.successCount + last'.result.failureCount = n
             /\ Len(last'.result.errors) = last'.result.failureCount
             /\ last'.result.errors = ErrorFiles(last'.moves) ]_vars

\* The first move of a batch failed and the second one was made.
C9_Witness ==
    /\ last.op = "execute"
    /\ Len(last.moves) = 2
    /\ ~last.moves[1].ok
    /\ last.moves[2].ok
    /\ last.result.errors = <<last.moves[1].from>>

\* The pairs of the entries whose move succeeded, in entry order.
MovedPairs(call) ==
    LET n == Len(call.moves)
        idx == SelectSeq([i \in 1..n |-> i], LAMBDA i : call.moves[i].ok)
    IN [k \in 1..Len(idx) |-> PreviewPairs(call.previews)[idx[k]]]

\* C10: executeRename records one history entry exactly when at least one
\* move succeeded, its mapping being the pairs of the entries that moved,
\* in entry order; otherwise it leaves both stacks alone; on an empty list
\* it returns 0/0 and touches nothing; no stack holds an entry with an
\* empty mapping.
C10_HistoryEntry ==
    [][ /\ last'.op = "execute" =>
            /\ IF last'.result.successCount > 0
               THEN /\ nextId' = nextId + 1
                    /\ Top(undoHistory').id = nextId'
                    /\ Top(undoHistory').fileMapping = MovedPairs(last')
                    /\ Front(undoHistory') =
                          IF Len(undoHistory) = maxHistorySize
                          THEN Tail(undoHistory) ELSE undoHistory
               ELSE UNCHANGED <<undoHistory, redoHistory, nextId>>
            /\ last'.previews = <<>> =>
                  /\ last'.result = Result(0, 0, <<>>)
                  /\ UNCHANGED <<fs, dirs, undoHistory, redoHistory>>
        /\ \A i \in 1..Len(undoHistory') : undoHistory'[i].fileMapping # <<>>
        /\ \A i \in 1..Len(redoHistory') : redoHistory'[i].fileMapping # <<>> ]_vars

\* One of two moves succeeded and the entry recorded holds that one pair.
C10_Witness ==
    /\ last.op = "execute"
    /\ last.result.successCount = 1
    /\ last.result.failureCount = 1
    /\ ~last.moves[1].ok
    /\ Top(undoHistory).fileMapping = <<Pair(last.moves[2])>>

\* C11: in the rename request flow no file is moved unless validateRename
\* on the same preview returned valid and, when it returned warnings, the
\* user confirmed; an invalid new name or a declined confirmation ends the
\* request with the filesystem and both history stacks unchanged.
C11_RequestGated ==
    [][ request'.n # request.n =>
          /\ (fs' # fs \/ last' # last) =>
                /\ request'.previews # <<>>
                /\ last'.previews = EnginePreviews(request'.previews)
                /\ request'.validation
                      = Returned(ValidateRename(request'.previews,
                                                Disk(fs, dirs), {}))
                /\ request'.validation.value.isValid
                /\ request'.validation.value.warnings.defined
                      => (request'.asked /\ request'.action = Continue)
          /\ (/\ request'.validation.called
              /\ \/ ~request'.validation.value.isValid
                 \/ (request'.asked /\ request'.action = Dismiss))
                => /\ fs' = fs
                   /\ undoHistory' = undoHistory
                   /\ redoHistory' = redoHistory ]_vars

\* C11 witness: a request whose preview has warnings was confirmed and
\* moved a file.
C11_Witness ==
    /\ request.stage = "executed"
    /\ request.asked
    /\ last.op = "execute"
    /\ Len(Succeeded(last.moves)) > 0

\* The new names of a preview.
NewNames(previews) == {previews[i].newFileName : i \in 1..Len(previews)}

\* The base of a name: what precedes its first dot.
Stem(name) == Split(name, ".")[1]

\* A name is invalid for one of the reasons the claim lists.
InvalidAsClaimed(name) ==
    \/ name = <<>>
    \/ \E i \in 1..Len(name) : name[i] \in InvalidChars
    \/ [i \in 1..Len(Stem(name)) |-> ToUpper(Stem(name)[i])] \in ReservedNames
    \/ EndsWith(name, " ") \/ EndsWith(name, ".")

\* A string of whitespace only.
Blank(string) == \A i \in 1..Len(string) : string[i] \in Whitespace

SharedTargets(previews) ==
    {previews[i] : i \in {k \in 1..Len(previews) :
        \E j \in 1..Len(previews) :
            j # k /\ previews[j].newPath = previews[k].newPath}}

\* The elements of a sequence.
Range(sequence) == {sequence[i] : i \in 1..Len(sequence)}

\* C13: validateRename reports in duplicates every entry whose newPath is
\* shared with another entry of the batch (both entries of a pair), and
\* the result of a batch of valid names stays valid with a warning.
C13_DuplicatesReported ==
    (output.called /\ SharedTargets(input.previews) # {}) =>
        /\ SharedTargets(input.previews)
              \subseteq Range(output.value.duplicateFiles.value)
        /\ (\A name \in NewNames(input.previews) : IsValidFileName(name))
              => (output.value.isValid /\ output.value.warnings.defined)

\* The position of a file in a list of distinct files.
PositionIn(files, file) == CHOOSE i \in 1..Len(files) : files[i] = file

\* C14: previewRename returns an entry for a file only if substituting the
\* pattern in its base name changes the name: a file whose base name the
\* pattern does not match has no entry, every entry has oldFileName
\* different from newFileName, the entries keep the order of the input
\* files, and an empty or whitespace-only pattern yields the empty list.
C14_PreviewOnlyChanged ==
    output.called =>
        LET entries == output.value
            files == input.files
        IN /\ \A i \in 1..Len(entries) :
                 /\ entries[i].oldPath \in Range(files)
                 /\ entries[i].oldFileName = PathBasename(entries[i].oldPath)
                 /\ entries[i].oldFileName # entries[i].newFileName
                 /\ Occurs(input.searchPattern, entries[i].oldFileName)
           /\ \A i, j \in 1..Len(entries) :
                 i < j => PositionIn(files, entries[i].oldPath)
                             < PositionIn(files, entries[j].oldPath)
           /\ Blank(input.searchPattern) => entries = <<>>

\* C14 witness: of two files the pattern matches the second only, and the
\* preview holds the second only.
C14_Witness ==
    /\ output.called
    /\ Len(input.files) = 2
    /\ ~Occurs(input.searchPattern, PathBasename(input.files[1]))
    /\ Len(output.value) = 1
    /\ output.value[1].oldPath = input.files[2]

\* C15: for every preview entry needsDirectoryMove is true exactly when
\* the directory of newPath differs from the directory of oldPath.
C15_DirectoryMoveFlag ==
    output.called =>
        \A i \in 1..Len(output.value) :
            output.value[i].needsDirectoryMove
               <=> PathDirname(output.value[i].newPath)
                      # PathDirname(output.value[i].oldPath)


\* C16: bounded results.  For every candidate list, batch size and
\* maxResults M, a successful search returns at most M files.
C16_BoundedResults ==
    (finished.searchId # 0 /\ config.maxResults > 0) =>
        (finished.result.success
            => Len(finished.result.files) <= config.maxResults)

\* C17: at most one search is in flight at any time, under any
\* interleaving of executeSearch requests, clearResults calls and search
\* completions.
C17_OneSearchInFlight == Cardinality(searches) <= 1

\* A searchFiles call returns in this step.
Returns(search) ==
    /\ search \in searches
    /\ finished.searchId # search.searchId
    /\ finished'.searchId = search.searchId

\* C18: a search that ends as canceled returns a failure carrying no
\* files: the matches accumulated before the cancellation of a search was
\* requested are not returned by searchFiles, and a failure leaves the
\* results the provider displays as they are.
C18_CanceledReturnsNothing ==
    [][ \A search \in searches : Returns(search) =>
          /\ (search.isCancellationRequested /\ search.matchedFiles # <<>>)
                => /\ ~finished'.result.success
                   /\ finished'.result.error.message = "CANCELLED"
          /\ ~finished'.result.success
                => /\ "files" \notin DOMAIN finished'.result
                   /\ searchResults' = searchResults ]_vars

\* C18 witness: a search canceled after it had accumulated matches has
\* returned, the results of an earlier search being displayed.
C18_Witness ==
    /\ finished.searchId # 0
    /\ ~finished.result.success
    /\ finished.result.error.message = "CANCELLED"
    /\ finished.isCancellationRequested
    /\ finished.partial # <<>>
    /\ searchResults.rootNodes # <<>>

\* C19: a canceled search produces no user-visible error message, whereas
\* the failures of an invalid pattern and of an unknown error are shown.
C19_CanceledSilent ==
    (finished.searchId # 0 /\ ~finished.result.success) =>
        (finished.message.shown
            <=> finished.result.error.message # "CANCELLED")

\* The terminal states of a search.
Terminal == {"completed", "error", "canceled"}

\* C20: the search state enters searching only from idle or a terminal
\* state, and it leaves searching only when the running search finishes,
\* going to a terminal state; no other event changes the state while a
\* search is running.
C20_SearchStateMachine ==
    [][ /\ (searchState # "searching" /\ searchState' = "searching")
              => searchState \in {"idle"} \cup Terminal
        /\ (searchState = "searching" /\ searchState' # "searching")
              => /\ \E search \in searches : Returns(search)
                 /\ searchState' \in Terminal
        /\ (searches # {} /\ searchState' # searchState)
              => \E search \in searches : Returns(search) ]_vars

\* The greatest number of groups open at once in a pattern.
Depth(pattern) ==
    LET balance == Balance(pattern)
    IN Greatest({balance[i] : i \in 1..Len(balance)})

\* The dangerous shapes that do not depend on the nesting.
OtherShapes(pattern) ==
    \/ \E i \in 1..Len(pattern) : StarredGroupsAt(pattern, i, 10)
    \/ LongRepeat(pattern)
    \/ QuantifierRun(pattern)

ValidateReturned ==
    /\ output.called /\ "value" \in DOMAIN output
    /\ "isValid" \in DOMAIN output.value

\* C25: validate rejects, in this order of checks, an empty or
\* whitespace-only pattern (empty-pattern error), a pattern longer than
\* 1000 characters, a pattern the regex engine cannot compile
\* (invalid-regex error) and a pattern whose parenthesis nesting depth is
\* 10 or more (dangerous-pattern error); a pattern of exactly 1000
\* characters is not rejected by the length check, one of nesting depth
\* below 10 is not rejected by the nesting check.
C25_ValidateOrder ==
    ValidateReturned =>
        LET result == output.value
            rejected(error) == ~result.isValid /\ result.error = error
        IN /\ Blank(input) => rejected("EMPTY_PATTERN")
           /\ ~Blank(input) /\ Len(input) > 1000
                 => rejected("PATTERN_TOO_LONG")
           /\ ~Blank(input) /\ Len(input) <= 1000 /\ ~Compiles(input)
                 => rejected("INVALID_REGEX")
           /\ ~Blank(input) /\ Len(input) <= 1000 /\ Compiles(input)
              /\ Depth(input) >= 10
                 => rejected("DANGEROUS_PATTERN")
           /\ Len(input) = 1000 => ~rejected("PATTERN_TOO_LONG")
           /\ Depth(input) < 10 /\ ~OtherShapes(input)
                 => ~rejected("DANGEROUS_PATTERN")
           /\ result.isValid => result.error = "none"

\* A whitespace-only pattern longer than the limit is reported as empty,
\* and a pattern of depth 9 and exactly 1000 characters is valid.
C25_Witness ==
    /\ ValidateReturned
    /\ \/ /\ Blank(input) /\ Len(input) > 1000
          /\ output.value.error = "EMPTY_PATTERN"
       \/ /\ Len(input) = 1000 /\ Depth(input) = 9 /\ output.value.isValid

CreateRegexReturned == output.called /\ "thrown" \in DOMAIN output

\* C26: createRegex(pattern) throws exactly when validate(pattern) reports
\* the pattern invalid, and otherwise returns a matcher compiled from the
\* same pattern; warnings alone never make it throw.
C26_CreateRegexThrows ==
    CreateRegexReturned =>
        /\ output.thrown <=> ~Validate(input).isValid
        /\ ~output.thrown => output.value.source = input
        /\ Validate(input).isValid /\ Validate(input).warnings.defined
              => ~output.thrown

C26_Witness ==
    /\ CreateRegexReturned /\ ~output.thrown
    /\ Validate(input).warnings.defined
    /\ output.value.source = input

\* The search whose result the state records passed the checks.
PassesChecks ==
    config.workspaceOpen /\ Validate(config.searchPattern).isValid

\* C21: findFiles is called exactly once for each search that passes the
\* workspace and pattern checks, and never for a search request made with no
\* workspace folder or with a pattern the validator rejects; such requests
\* return a failure result, the workspace check deciding before the pattern
\* check.
C21_FindFilesOnce ==
    /\ \A search \in searches : PassesChecks /\ search.findFilesCalls = 1
    /\ finished.searchId # 0 =>
          /\ finished.findFilesCalls = (IF PassesChecks THEN 1 ELSE 0)
          /\ ~PassesChecks =>
                /\ ~finished.result.success
                /\ finished.result.error.message =
                     (IF ~config.workspaceOpen THEN "WORKSPACE_NOT_OPEN"
                      ELSE Validate(config.searchPattern).error)

\* A request with no workspace folder and a rejected pattern has failed on the
\* workspace check without calling findFiles.
C21_Witness ==
    /\ finished.searchId # 0
    /\ ~config.workspaceOpen /\ ~Validate(config.searchPattern).isValid
    /\ finished.findFilesCalls = 0
    /\ finished.result.error.message = "WORKSPACE_NOT_OPEN"

\* The candidates whose base name the pattern matches, in their order.
Matching(allFiles, pattern) ==
    SelectSeq(allFiles, LAMBDA file : Occurs(pattern, PathBasename(file)))

\* C22: the files of a successful search are enumerated candidates whose
\* base name matches the pattern, in enumeration order; when the result is
\* not truncated by maxResults it is the list of all of them, whatever the
\* batch size, and totalCount is the number of returned files.
C22_MatchedFiles ==
    finished.searchId # 0 /\ finished.result.success =>
        LET files == finished.result.files
            matching == Matching(finished.allFiles, config.searchPattern)
        IN /\ \E k \in 0..Len(matching) : files = SubSeq(matching, 1, k)
           /\ Len(files) < MaxResultsOf(config) => files = matching
           /\ finished.result.totalCount = Len(files)

\* A search has returned some of the candidates and left out another.
C22_Witness ==
    /\ finished.searchId # 0 /\ finished.result.success
    /\ finished.result.files # <<>>
    /\ Len(finished.result.files) < MaxResultsOf(config)
    /\ Len(finished.result.files) < Len(finished.allFiles)

\* The entries that are not blank, without the whitespace around them.
Entries(folders) ==
    LET kept == SelectSeq(folders, LAMBDA folder : ~Blank(folder))
    IN [i \in 1..Len(kept) |-> Trim(kept[i])]

\* The entries between braces, separated by commas.
BraceJoined(entries, glob) ==
    /\ Len(glob) >= 2 /\ glob[1] = "{" /\ glob[Len(glob)] = "}"
    /\ Split(SubSeq(glob, 2, Len(glob) - 1), ",") = entries

\* C23: the include glob passed to findFiles is **/* for an empty include
\* list, the single pattern for one entry and the brace-joined {p1,p2,...}
\* for several; the exclude glob is null for an empty exclude list,
\* otherwise the single pattern or the brace-joined set; blank entries are
\* ignored.
C23_Globs ==
    output.called =>
        LET entries == Entries(input)
            glob == IF "include" \in DOMAIN output THEN output.include
                    ELSE output.exclude
        IN /\ Len(entries) = 0 =>
                 glob = (IF "include" \in DOMAIN output THEN AllFiles
                         ELSE Null)
           /\ Len(entries) = 1 => glob = entries[1]
           /\ Len(entries) > 1 => BraceJoined(entries, glob)

\* A list with a blank entry and two others gives the brace-joined pair.
C23_Witness ==
    /\ output.called /\ "include" \in DOMAIN output
    /\ Len(input) = 3 /\ Len(Entries(input)) = 2
    /\ output.include = <<"{">> \o Entries(input)[1] \o <<",">>
                          \o Entries(input)[2] \o <<"}">>

\* C24: the file list that getSearchState exposes after a completed search,
\* which previewRename and executeRename receive, contains every file
\* matched by that search, at any directory depth below the workspace
\* root, and no other file.
C24_ExposedFiles ==
    searchState = "completed" =>
        /\ GetSearchState.results.defined
        /\ Range(GetSearchState.results.files) = Range(finished.result.files)

BuildFileTreeReturned ==
    /\ output.called /\ "value" \in DOMAIN output
    /\ "rootNodes" \in DOMAIN output.value

\* The levels of a tree: the roots and the children of each folder.
Levels(tree) ==
    {tree.rootNodes}
    \cup {tree.nodes[k].node.children :
             k \in {n \in 1..Len(tree.nodes) :
                        tree.nodes[n].node.type = "folder"}}

\* In a level all folders precede all files, and the names of the folders
\* and those of the files are in case-insensitive, numeric-aware ascending
\* order.
Ordered(level, nodes) ==
    \A i, j \in 1..Len(level) :
        i < j =>
            LET a == NodeAt(nodes, level[i])
                b == NodeAt(nodes, level[j])
            IN /\ ~(a.type = "file" /\ b.type = "folder")
               /\ a.type = b.type => LocaleCompare(a.label, b.label) <= 0

\* C27 as claimed: in every tree returned by the hierarchy builder, at
\* every level (the roots and each folder's children) all folders precede
\* all files, and within the folders and within the files the names are in
\* case-insensitive, numeric-aware ascending order.
C27_SortedAsClaimed ==
    BuildFileTreeReturned =>
        \A level \in Levels(output.value) :
            Ordered(level, output.value.nodes)

\* C27: in every tree the hierarchy builder returns when it is not called
\* with sortFoldersFirst: false, every level has all folders before all
\* files and the names of each kind in case-insensitive, numeric-aware
\* ascending order; called with sortFoldersFirst: false it leaves every
\* level in the order in which the paths were first met.
C27_Sorted ==
    BuildFileTreeReturned =>
        /\ input.options.sortFoldersFirst =>
              \A level \in Levels(output.value) :
                  Ordered(level, output.value.nodes)
        /\ ~input.options.sortFoldersFirst =>
              output.value =
                  Hierarchy(BuildNodeMap(input.files, Workspace,
                                         input.options, <<>>, 0))

\* A sorted tree whose roots were met in another order, a file before a
\* folder.
C27_Witness ==
    /\ BuildFileTreeReturned /\ input.options.sortFoldersFirst
    /\ Len(output.value.rootNodes) >= 2
    /\ NodeAt(output.value.nodes, output.value.rootNodes[1]).type = "folder"
    /\ Len(RelativeParts(Workspace, input.files[1])) = 1

\* The paths the builder keeps: those within the depth limit given.
Kept(files, options) ==
    {RelativeParts(Workspace, files[i]) :
        i \in {k \in 1..Len(files) :
                  \/ options.maxDepth = 0
                  \/ Len(RelativeParts(Workspace, files[k]))
                        <= options.maxDepth}}

\* The folder prefixes of a set of relative paths.
Prefixes(paths) ==
    UNION {{SubSeq(parts, 1, i) : i \in 1..(Len(parts) - 1)} :
              parts \in paths}

\* The number of references to a node: as a root and as a child.
References(tree, path) ==
    Cardinality({i \in 1..Len(tree.rootNodes) : tree.rootNodes[i] = path})
    + Cardinality(UNION {
          {<<k, i>> : i \in {c \in 1..Len(tree.nodes[k].node.children) :
                                tree.nodes[k].node.children[c] = path}} :
          k \in {n \in 1..Len(tree.nodes) :
                    tree.nodes[n].node.type = "folder"}})

\* The nodes at a path of the tree.
NodesAt(tree, path) ==
    {k \in 1..Len(tree.nodes) : tree.nodes[k].path = path}

\* C28: the built tree is a forest in which each relative folder prefix
\* appears as exactly one folder node however many files share it, each
\* input path within the depth limit appears as exactly one file leaf
\* under the folder chain of its relative directory, and every node is
\* either a root or the child of exactly one folder.
C28_Forest ==
    BuildFileTreeReturned =>
        LET tree == output.value
            kept == Kept(input.files, input.options)
        IN /\ \A prefix \in Prefixes(kept) :
                  /\ Cardinality(NodesAt(tree, prefix)) = 1
                  /\ \A k \in NodesAt(tree, prefix) :
                        /\ tree.nodes[k].node.type = "folder"
                        /\ tree.nodes[k].node.label = prefix[Len(prefix)]
           /\ \A i \in 1..Len(input.files) :
                  LET parts == RelativeParts(Workspace, input.files[i])
                  IN parts \in kept =>
                        /\ Cardinality(NodesAt(tree, parts)) = 1
                        /\ \A k \in NodesAt(tree, parts) :
                              tree.nodes[k].node =
                                  FileNode(parts[Len(parts)], input.files[i])
           /\ \A k \in 1..Len(tree.nodes) :
                  LET path == tree.nodes[k].path
                  IN /\ References(tree, path) = 1
                     /\ IF Len(path) = 1
                        THEN \E i \in 1..Len(tree.rootNodes) :
                                 tree.rootNodes[i] = path
                        ELSE \E n \in NodesAt(tree, Front(path)) :
                                 /\ tree.nodes[n].node.type = "folder"
                                 /\ \E c \in
                                       1..Len(tree.nodes[n].node.children) :
                                       tree.nodes[n].node.children[c] = path

\* Two files of one folder have been built into a tree.
C28_Witness ==
    /\ BuildFileTreeReturned
    /\ \E k \in 1..Len(output.value.nodes) :
          /\ output.value.nodes[k].node.type = "folder"
          /\ Len(output.value.nodes[k].node.children) = 2
          /\ References(output.value, output.value.nodes[k].path) = 1

\* C29: the hierarchy builder skips, without failing and while still
\* building all other paths, every path whose relative segment count
\* exceeds maxDepth, where maxDepth is 50 when the option is not given; a
\* skipped path leaves no folder scaffolding of its own in the tree.
C29_DepthLimit ==
    BuildFileTreeReturned =>
        LET tree == output.value
            maxDepth == IF input.options.maxDepth = 0 THEN MAX_DEPTH
                        ELSE input.options.maxDepth
            built == {RelativeParts(Workspace, input.files[i]) :
                        i \in {k \in 1..Len(input.files) :
                           Len(RelativeParts(Workspace, input.files[k]))
                              <= maxDepth}}
        IN {tree.nodes[k].path : k \in 1..Len(tree.nodes)}
               = built \cup Prefixes(built)

\* C30: no operation renames or deletes a directory: executeRename only
\* creates target directories that do not exist yet (an existing directory
\* is left as is), and undo leaves the directories created by the undone
\* execute in place.
C30_DirectoriesKept ==
    [][ /\ dirs \subseteq dirs'
        /\ dirs' # dirs =>
              /\ last'.op = "execute"
              /\ dirs' \ dirs \subseteq
                     {Dirname(last'.previews[i].newPath) :
                         i \in {k \in 1..Len(last'.previews) :
                                   last'.previews[k].needsDirectoryMove}}
        /\ last'.op \in {"undo", "redo", "external"} => dirs' = dirs ]_vars

\* An execute that moved a file into the subdirectory has been undone: the
\* subdirectory is still there, empty.
C30_Witness ==
    /\ last.op = "undo" /\ roundTrip.stage = 2
    /\ roundTrip.pre["/s/c"] = NoFile /\ roundTrip.post["/s/c"] # NoFile
    /\ fs["/s/c"] = NoFile
    /\ SubDir \in dirs

\* C31: at most one of executeRename, undo and redo is in progress on the
\* engine at any time: a request delivered while a call awaits a
\* filesystem call does not begin (pop its entry, issue its first
\* filesystem call) before that call has returned.
C31_OneOperationAtATime == Len(operations) <= 1

\* The identities of the entries of a stack, bottom to top.
Ids(stack) == [i \in 1..Len(stack) |-> stack[i].id]

\* The entries in the order of their creation.
InOrder(ids) == \A i, j \in 1..Len(ids) : i < j => ids[i] < ids[j]

\* C32: whenever no call of the engine is in progress, the undo stack read
\* bottom to top followed by the redo stack read top to bottom lists the
\* entries in the order their batches were executed, the redo stack is
\* empty right after an execute that added an entry, and the undo stack
\* holds at most maxHistorySize entries; also when the calls overlapped.
C32_LinearUnderOverlap ==
    operations = <<>> =>
        /\ InOrder(Ids(undoHistory) \o Reverse(Ids(redoHistory)))
        /\ (last.op = "execute" /\ last.result.successCount > 0)
              => redoHistory = <<>>
        /\ Len(undoHistory) <= maxHistorySize

\* C33: over calls of executeRename, undo and redo that do not overlap, the
\* undo and the redo stack together hold at most maxHistorySize entries and
\* no entry is on both stacks, so the push of redo, which applies no cap,
\* never takes the undo stack beyond the cap.
C33_StacksTogether ==
    /\ Len(undoHistory) + Len(redoHistory) <= maxHistorySize
    /\ \A i \in 1..Len(undoHistory), j \in 1..Len(redoHistory) :
           undoHistory[i].id # redoHistory[j].id
    /\ last.op = "redo" => Len(undoHistory) <= maxHistorySize

\* A redo has just filled the undo stack: ten entries below and on top the
\* entry that was undone before.
C33_Witness ==
    /\ last.op = "redo" /\ last.error = "none"
    /\ Len(undoHistory) = maxHistorySize
    /\ redoHistory = <<>>
    /\ undoHistory[1].id > 1

\* C34: after clearResults the results stay empty and the state stays idle
\* until a search started after the clear finishes: a search that was
\* running when clearResults was called publishes nothing and leaves the
\* state alone when it returns.  (While the state is idle every search in
\* flight was started before the last clearResults: starting one sets the
\* state to searching.)
C34_ClearedStaysCleared ==
    [][ (/\ searchState = "idle"
         /\ finished' # finished
         /\ \E search \in searches : search.searchId = finished'.searchId)
        => (searchState' = "idle" /\ searchResults' = NoTree) ]_vars

\* The loop of a searchFiles call resumes in this step, after findFiles or
\* after the await between two batches.
Resumes(search) ==
    /\ search \in searches
    /\ search \notin searches'
    /\ [search EXCEPT !.isCancellationRequested = TRUE] \notin searches'

\* C35: when two searchFiles calls overlap on one service the later one
\* supersedes the earlier one: the earlier call fails with the cancel error
\* at its next batch boundary, and the earlier call returning (which resets
\* the current search id) does not cancel the later call.
C35_LaterSupersedes ==
    [][ \A earlier, later \in searches :
          earlier.searchId < later.searchId =>
             /\ (Resumes(earlier) /\ earlier.pc = "batch")
                   => /\ Returns(earlier)
                      /\ finished'.result = Failure(SearchError("CANCELLED"))
             /\ (Returns(earlier) /\ ~Cancelled(later, currentSearchId))
                   => ~Cancelled(later, currentSearchId') ]_vars

Asks == output' # output \/ request' # request

\* The step shows no file to rename and starts no rename.
SeesNoFiles ==
    /\ output' # output => output' = Returned(<<>>)
    /\ request' # request => request'.stage \in {"noReplacement", "noFiles"}
    /\ UNCHANGED engineVars

\* C38: getSearchState carries results exactly in the completed state, and
\* a rename preview or rename request made while a search is running, in
\* the idle, searching or error state (after a failed or canceled search),
\* or after clearResults with no search started since, sees no files and
\* moves nothing.
C38_NoFilesUnlessCompleted ==
    [][ /\ GetSearchState.results.defined <=> searchState = "completed"
        /\ (/\ Asks
            /\ \/ searches # {}
               \/ searchState # "completed"
               \/ input.cleared)
              => SeesNoFiles ]_vars

=============================================================================
